---- MODULE Spec2Model ----
(***************************************************************************)
(* Ingestion-and-cleaning pipeline of the taxi-trip repository.            *)
(*                                                                         *)
(*   load.py   _insert_rate_limited : the sequential resumable Ingestor,   *)
(*             one action per statement of its loop body                   *)
(*   load.py   _build_projection_for_file, _ensure_table_schema            *)
(*   clean.py  clean_one : the six exclusion steps                         *)
(*                                                                         *)
(* SQL is modelled with its three-valued logic: a comparison with a NULL   *)
(* operand is unknown ("U"), and DELETE ... WHERE / COUNT ... WHERE touch  *)
(* only the rows whose condition is true ("T").                            *)
(***************************************************************************)
EXTENDS Integers, Sequences, FiniteSets, TLC

(***************************************************************************)
(* SQL values and three-valued logic                                       *)
(***************************************************************************)
\* SQL NULL. Every number the model uses as a column value is >= -5, so the
\* sentinel is never a value; every operator below tests for it first.
NULL == -99

IsNull(v) == v = NULL

Not3(a) == CASE a = "T" -> "F" [] a = "F" -> "T" [] OTHER -> "U"

And3(a, b) ==
    IF a = "F" \/ b = "F" THEN "F"
    ELSE IF a = "T" /\ b = "T" THEN "T"
    ELSE "U"

Ge3(a, b) == IF IsNull(a) \/ IsNull(b) THEN "U" ELSE IF a >= b THEN "T" ELSE "F"

Lt3(a, b) == IF IsNull(a) \/ IsNull(b) THEN "U" ELSE IF a < b THEN "T" ELSE "F"

Le3(a, b) == IF IsNull(a) \/ IsNull(b) THEN "U" ELSE IF a <= b THEN "T" ELSE "F"

Gt3(a, b) == IF IsNull(a) \/ IsNull(b) THEN "U" ELSE IF a > b THEN "T" ELSE "F"

Eq3(a, b) == IF IsNull(a) \/ IsNull(b) THEN "U" ELSE IF a = b THEN "T" ELSE "F"

Between3(v, lo, hi) == And3(Ge3(v, lo), Le3(v, hi))

Coalesce(v, d) == IF IsNull(v) THEN d ELSE v

(***************************************************************************)
(* Period Enumerator: YEARS x MONTHS in chronological order                *)
(***************************************************************************)
FirstYear == 2015

\* The program walks 10 years of 12 months; the model walks NumYears years of
\* NumMonths months (January .. ), which keeps both halves of the resume
\* comparison (an earlier year, the same year and an earlier month) alive.
NumYears == 2

NumMonths == 2

YEARS == FirstYear .. (FirstYear + NumYears - 1)

MONTHS == 1 .. NumMonths

Periods == YEARS \X MONTHS

\* (y1, m1) strictly before (y2, m2) in (year, month) order.
PeriodBefore(p, q) == p[1] < q[1] \/ (p[1] = q[1] /\ p[2] < q[2])

\* Timestamps of the load stage are kept at month granularity: the number of
\* the month a timestamp falls in. month_start is the first instant of the
\* month, month_start + INTERVAL 1 MONTH the first instant of the next one.
MonthsPerYear == 12

MonthStart(p) == p[1] * MonthsPerYear + (p[2] - 1)

\* Pickup timestamps a remote row may carry: NULL, December of the year
\* before the first period, and one in every period's month.
PickVals == {NULL, MonthStart(<<FirstYear, 1>>) - 1} \cup {MonthStart(p) : p \in Periods}

(***************************************************************************)
(* Tables of the load stage: bags of rows. A row of the load stage is      *)
(* reduced to its pickup timestamp, the only column the Ingestor reads.    *)
(***************************************************************************)
EmptyTable == [r \in PickVals |-> 0]

OneRow(v) == [r \in PickVals |-> IF r = v THEN 1 ELSE 0]

TablePlus(a, b) == [r \in PickVals |-> a[r] + b[r]]

RECURSIVE SumOver(_, _)
SumOver(f, S) ==
    IF S = {} THEN 0
    ELSE LET x == CHOOSE e \in S : TRUE IN f[x] + SumOver(f, S \ {x})

(***************************************************************************)
(* State                                                                   *)
(***************************************************************************)
VARIABLES
    \* --- the remote source and the control files (environment) ---
    files,       \* period -> bag of rows of that period's remote parquet file
    stopFile,    \* STOP.LOAD exists
    pauseFile,   \* PAUSE.LOAD exists
    resumeFrom,  \* RESUME_FROM_<table> of the running process: NoResume or a period
    \* --- the store ---
    tableExists, \* the Raw Table exists
    raw,         \* the Raw Table: bag of rows
    \* --- _insert_rate_limited ---
    pc,          \* position in the function
    yyyy, mm,    \* loop variables
    created,     \* local `created`
    skipped,     \* local `skipped`: sequence of (yyyy, mm)
    summary,     \* the skipped-months summary was printed
    \* --- history of the run (what an observer of the log would know) ---
    issued,      \* statements sent to the engine in this run: <<op, period>>
    okLog,       \* periods that logged "OK: ..."
    raisedAt,    \* periods in which a statement raised
    rawAtStart,  \* Raw Table when the run started
    rawAtTry,    \* Raw Table when the current period's try block was entered
    stopSeenAt,  \* period before which the stop check saw the marker, or NoPeriod
    \* --- Schema Negotiator on full rows (one period's transfer) ---
    pjPc,        \* position: "ensure", "project", "insert", "done"
    pjTable,     \* table_name
    pjFileCols,  \* column names DESCRIBE reports for the remote file
    pjFileRows,  \* rows of the remote file: sequence of [column -> value]
    pjTblCols,   \* columns of the Raw Table, in order: sequence of [name, type]
    pjTblRows,   \* rows of the Raw Table: sequence of [column -> value]
    pjSelect,    \* select_list
    \* --- clean_one ---
    clPc,        \* position: "copy", "step1" .. "step6", "final", "done"
    clSrc,       \* the Raw Table being cleaned: sequence of rows
    clDest,      \* the Cleaned Table: sequence of rows
    clDestExists,\* the Cleaned Table exists
    clLog,       \* the counts clean_one logs, in order
    clCheckpoints,\* row count of the Cleaned Table at each PRAGMA force_checkpoint, in order
    \* --- the six exclusion steps applied in an arbitrary order ---
    aoSrc,       \* the Raw Table: sequence of rows
    aoTbl,       \* the working copy
    aoApplied,   \* the steps applied so far
    aoFirst,     \* the step applied first, or 0
    \* --- verify_one ---
    vfPc,        \* position: "idle", "check", "status", "done"
    vfTbl,       \* the rows of the table `tbl` names
    vfIdx,       \* index of the loop over `checks`
    vfCounts,    \* the counts printed so far, in order
    vfAllOk,     \* local `all_ok`
    vfStatus,    \* the status line printed, or "none"
    \* --- clean.py main ---
    cmPc,        \* position in main and in the function it is calling
    cmCls,       \* vehicle class being cleaned, verified or dropped
    cmStep,      \* step of clean_one under way (1 .. 6)
    cmTables,    \* the store: table name -> [exists, rows]
    cmConn,      \* the storage connection: "none", "open", "closed"
    cmConVar,    \* main's local `con` is set (not None)
    cmOutcome,   \* "running", "ok", "raised" (the error left main), "crashed"
    cmLogged,    \* logger.exception ran
    cmStatuses,  \* status lines of the verify_one calls of this run, in order
    cmDropped,   \* raw tables this run has dropped
    cmRerun,     \* this is the stage being run again
    cmFirst,     \* how the first run ended: [outcome, tables, pc, cls, step]
    \* --- load.py main ---
    lmPc,        \* position in main: "connect", "entry", "loop", "emissions", ...
    lmTable,     \* table_name of the loader running
    lmIdx,       \* the loops of the loader are at the lmIdx-th (yyyy, mm)
    lmCreated,   \* the loader's local `created`
    lmSkipped,   \* the loader's local `skipped`
    lmVisited,   \* <<table, period>> of the iterations that passed the stop check, in order
    lmStop,      \* STOP.LOAD exists
    lmResume,    \* table -> RESUME_FROM_* cutoff or NoResume
    lmConn,      \* the storage connection: "none", "open", "closed"
    lmConVar,    \* main's local `con` is set (not None)
    lmOutcome,   \* "running", "ok", "raised"
    lmLog        \* what the run has written to load.log: a set of <<level, message>>

loadVars == <<files, stopFile, pauseFile, resumeFrom, tableExists, raw, pc, yyyy, mm,
              created, skipped, summary, issued, okLog, raisedAt, rawAtStart,
              rawAtTry, stopSeenAt>>

projVars == <<pjPc, pjTable, pjFileCols, pjFileRows, pjTblCols, pjTblRows, pjSelect>>

cleanVars == <<clPc, clSrc, clDest, clDestExists, clLog, clCheckpoints>>

orderVars == <<aoSrc, aoTbl, aoApplied, aoFirst>>

\* The components beyond the three the load and cleaning functions use.
verifyVars == <<vfPc, vfTbl, vfIdx, vfCounts, vfAllOk, vfStatus>>

cleanMainVars == <<cmPc, cmCls, cmStep, cmTables, cmConn, cmConVar, cmOutcome, cmLogged,
                   cmStatuses, cmDropped, cmRerun, cmFirst>>

stageVars == <<orderVars, verifyVars, cleanMainVars>>

loadMainVars == <<lmPc, lmTable, lmIdx, lmCreated, lmSkipped, lmVisited, lmStop,
                  lmResume, lmConn, lmConVar, lmOutcome, lmLog>>

vars == <<loadVars, projVars, cleanVars, stageVars, loadMainVars>>

NoResume == <<0, 0>>

NoPeriod == <<0, 0>>

cur == <<yyyy, mm>>

\* The rows of a remote file: one trip picked up in the file's own month, and
\* in at most one file a second row whose pickup timestamp is anything at all
\* (NULL, before 2015, another period's month, or the file's month again).
FileChoices ==
    { [p \in Periods |-> IF p = sf THEN TablePlus(OneRow(MonthStart(p)), OneRow(sp))
                         ELSE OneRow(MonthStart(p))] :
        sf \in Periods \cup {NoPeriod}, sp \in PickVals }

(***************************************************************************)
(* Schema Negotiator and the statements of one period, on load-stage rows  *)
(***************************************************************************)
\* WHERE pickup >= DATE month_start AND pickup < DATE month_start + INTERVAL 1 MONTH
InMonthRange(pick, p) ==
    And3(Ge3(pick, MonthStart(p)), Lt3(pick, MonthStart(p) + 1))

\* DELETE FROM t WHERE cond: the rows whose condition is true go.
DeleteMonth(t, p) == [r \in PickVals |-> IF InMonthRange(r, p) = "T" THEN 0 ELSE t[r]]

\* INSERT INTO t SELECT <projection> FROM read_parquet(url): no WHERE, every
\* row of the file is appended. The pickup column is in every file, so the
\* projection passes it through.
InsertFile(t, p) == TablePlus(t, files[p])

\* The part of a table inside / outside one period's month range.
RangePart(t, p) == [r \in PickVals |-> IF InMonthRange(r, p) = "T" THEN t[r] ELSE 0]

\* The components a specification does not exercise stay parked.
LoadParked ==
    /\ files = [p \in Periods |-> EmptyTable]
    /\ stopFile = FALSE
    /\ pauseFile = FALSE
    /\ resumeFrom = NoResume
    /\ tableExists = FALSE
    /\ raw = EmptyTable
    /\ pc = "done"
    /\ yyyy = FirstYear
    /\ mm = 1
    /\ created = FALSE
    /\ skipped = <<>>
    /\ summary = FALSE
    /\ issued = {}
    /\ okLog = {}
    /\ raisedAt = {}
    /\ rawAtStart = EmptyTable
    /\ rawAtTry = EmptyTable
    /\ stopSeenAt = NoPeriod

ProjParked ==
    /\ pjPc = "done"
    /\ pjTable = "raw_yellow_all"
    /\ pjFileCols = {}
    /\ pjFileRows = <<>>
    /\ pjTblCols = <<>>
    /\ pjTblRows = <<>>
    /\ pjSelect = <<>>

CleanParked ==
    /\ clPc = "done"
    /\ clSrc = <<>>
    /\ clDest = <<>>
    /\ clDestExists = FALSE
    /\ clLog = <<>>
    /\ clCheckpoints = <<>>

OrderParked ==
    /\ aoSrc = <<>>
    /\ aoTbl = <<>>
    /\ aoApplied = {}
    /\ aoFirst = 0

VerifyParked ==
    /\ vfPc = "idle"
    /\ vfTbl = <<>>
    /\ vfIdx = 1
    /\ vfCounts = <<>>
    /\ vfAllOk = TRUE
    /\ vfStatus = "none"

YELLOW_RAW == "raw_yellow_all"

GREEN_RAW == "raw_green_all"

YELLOW_CLEAN == "yellow_clean"

GREEN_CLEAN == "green_clean"

StoreTables == {YELLOW_RAW, GREEN_RAW, YELLOW_CLEAN, GREEN_CLEAN}

Absent == [exists |-> FALSE, rows |-> <<>>]

Present(rows) == [exists |-> TRUE, rows |-> rows]

NoFirstRun == [outcome |-> "none", tables |-> [t \in StoreTables |-> Absent],
               pc |-> "none", cls |-> "none", step |-> 0]

CleanMainParked ==
    /\ cmPc = "exit"
    /\ cmCls = "yellow"
    /\ cmStep = 1
    /\ cmTables = [t \in StoreTables |-> Absent]
    /\ cmConn = "none"
    /\ cmConVar = FALSE
    /\ cmOutcome = "none"
    /\ cmLogged = FALSE
    /\ cmStatuses = <<>>
    /\ cmDropped = {}
    /\ cmRerun = TRUE
    /\ cmFirst = NoFirstRun

LoadMainParked ==
    /\ lmPc = "exit"
    /\ lmTable = YELLOW_RAW
    /\ lmIdx = 1
    /\ lmCreated = FALSE
    /\ lmSkipped = <<>>
    /\ lmVisited = <<>>
    /\ lmStop = FALSE
    /\ lmResume = [t \in {YELLOW_RAW, GREEN_RAW} |-> NoResume]
    /\ lmConn = "none"
    /\ lmConVar = FALSE
    /\ lmOutcome = "none"
    /\ lmLog = {}

StageParked ==
    /\ OrderParked
    /\ VerifyParked
    /\ CleanMainParked
    /\ LoadMainParked

\* An earlier run that loaded every period without a failure, a stop or a
\* resume cutoff: delete-then-insert of each period in chronological order.
\* (a variant with the loops nested the other way round: months outside)
PeriodAtMonthsOutside(i) == <<FirstYear + ((i - 1) % NumYears), ((i - 1) \div NumYears) + 1>>

PeriodAt(i) == <<FirstYear + ((i - 1) \div NumMonths), ((i - 1) % NumMonths) + 1>>

NumPeriods == NumYears * NumMonths

RECURSIVE LoadFrom(_, _)
LoadFrom(t, i) ==
    IF i > NumPeriods THEN t
    ELSE LoadFrom(InsertFile(DeleteMonth(t, PeriodAt(i)), PeriodAt(i)), i + 1)

FullLoad == LoadFrom(EmptyTable, 1)

\* The state on entry to _insert_rate_limited (load.py 176-180). The Raw
\* Table is either absent (first load) or holds what an earlier complete run
\* left; RESUME_FROM_* is unset or names a period.
Init ==
    /\ files \in FileChoices
    /\ stopFile = FALSE
    /\ pauseFile = FALSE
    /\ resumeFrom \in {NoResume} \cup Periods
    /\ tableExists \in BOOLEAN
    /\ raw = IF tableExists THEN FullLoad ELSE EmptyTable
    /\ pc = "loop"
    /\ yyyy = FirstYear
    /\ mm = 1
    /\ created = FALSE
    /\ skipped = <<>>
    /\ summary = FALSE
    /\ issued = {}
    /\ okLog = {}
    /\ raisedAt = {}
    /\ rawAtStart = raw
    /\ rawAtTry = raw
    /\ stopSeenAt = NoPeriod
    /\ ProjParked
    /\ CleanParked
    /\ StageParked

(***************************************************************************)
(* _insert_rate_limited, statement by statement                            *)
(***************************************************************************)
Running == pc \notin {"done", "stopped", "fatal"}

LoopExhausted == yyyy \notin YEARS

\* the next (yyyy, mm) of `for yyyy in YEARS: for mm in MONTHS`
NextIteration ==
    IF mm < NumMonths THEN /\ mm' = mm + 1
                           /\ yyyy' = yyyy
    ELSE /\ mm' = 1
         /\ yyyy' = yyyy + 1

\* A statement raised inside the try block: control goes to the except clause.
Raise ==
    /\ raisedAt' = raisedAt \cup {cur}
    /\ pc' = "except"

\* load.py 182-188: top of an iteration, or the loops are over.
CheckStop ==
    /\ pc = "loop"
    /\ IF LoopExhausted THEN /\ pc' = "finish"
                             /\ UNCHANGED stopSeenAt
       ELSE IF stopFile THEN /\ pc' = "stopped"
                             /\ stopSeenAt' = cur
       ELSE /\ pc' = "pause"
            /\ UNCHANGED stopSeenAt
    /\ UNCHANGED <<files, stopFile, pauseFile, resumeFrom, tableExists, raw, yyyy, mm,
                   created, skipped, summary, issued, okLog, raisedAt, rawAtStart,
                   rawAtTry>>
    /\ UNCHANGED <<projVars, cleanVars, stageVars, loadMainVars>>

\* (a variant that looks at the stop marker again when the pause clears)
MaybePauseThenStop ==
    /\ pc = "pause"
    /\ pc' = IF pauseFile THEN "pause" ELSE IF stopFile THEN "stopped" ELSE "gate"
    /\ stopSeenAt' = IF ~pauseFile /\ stopFile THEN cur ELSE stopSeenAt
    /\ UNCHANGED <<files, stopFile, pauseFile, resumeFrom, tableExists, raw, yyyy, mm,
                   created, skipped, summary, issued, okLog, raisedAt, rawAtStart,
                   rawAtTry>>
    /\ UNCHANGED <<projVars, cleanVars, stageVars, loadMainVars>>

\* (a variant that does not wait)
MaybePauseNoWait ==
    /\ pc = "pause"
    /\ pc' = "gate"
    /\ UNCHANGED <<files, stopFile, pauseFile, resumeFrom, tableExists, raw, yyyy, mm,
                   created, skipped, summary, issued, okLog, raisedAt, rawAtStart,
                   rawAtTry, stopSeenAt>>
    /\ UNCHANGED <<projVars, cleanVars, stageVars, loadMainVars>>

\* load.py 37-41 and 190: poll while PAUSE.LOAD exists.
MaybePause ==
    /\ pc = "pause"
    /\ pc' = IF pauseFile THEN "pause" ELSE "gate"
    /\ UNCHANGED <<files, stopFile, pauseFile, resumeFrom, tableExists, raw, yyyy, mm,
                   created, skipped, summary, issued, okLog, raisedAt, rawAtStart,
                   rawAtTry, stopSeenAt>>
    /\ UNCHANGED <<projVars, cleanVars, stageVars, loadMainVars>>

\* (a variant that compares year and month separately)
ResumeSkipsEitherSmaller ==
    resumeFrom # NoResume /\ (yyyy < resumeFrom[1] \/ mm < resumeFrom[2])

\* load.py 193-198
ResumeSkips == resumeFrom # NoResume /\ PeriodBefore(cur, resumeFrom)

ResumeGate ==
    /\ pc = "gate"
    /\ IF ResumeSkips THEN /\ NextIteration
                           /\ pc' = "loop"
                           /\ UNCHANGED rawAtTry
       ELSE /\ pc' = "ensure"
            /\ rawAtTry' = raw
            /\ UNCHANGED <<yyyy, mm>>
    /\ UNCHANGED <<files, stopFile, pauseFile, resumeFrom, tableExists, raw,
                   created, skipped, summary, issued, okLog, raisedAt, rawAtStart,
                   stopSeenAt>>
    /\ UNCHANGED <<projVars, cleanVars, stageVars, loadMainVars>>

\* load.py 205-207 with _ensure_table_schema (104-124): CREATE TABLE when the
\* table is missing; an existing Raw Table already has every keep column.
EnsureTable ==
    /\ pc = "ensure"
    /\ IF created THEN /\ pc' = "project"
                       /\ UNCHANGED <<tableExists, created, issued, raisedAt>>
       ELSE \E ok \in BOOLEAN :
              /\ issued' = issued \cup {<<"ensure", cur>>}
              /\ IF ok THEN /\ tableExists' = TRUE
                            /\ created' = TRUE
                            /\ pc' = "project"
                            /\ UNCHANGED raisedAt
                 ELSE /\ Raise
                      /\ UNCHANGED <<tableExists, created>>
    /\ UNCHANGED <<files, stopFile, pauseFile, resumeFrom, raw, yyyy, mm,
                   skipped, summary, okLog, rawAtStart, rawAtTry, stopSeenAt>>
    /\ UNCHANGED <<projVars, cleanVars, stageVars, loadMainVars>>

\* (a variant in which the month's rows are removed before the file is inspected)
BuildProjectionAfterDelete ==
    /\ pc = "project"
    /\ issued' = issued \cup {<<"describe", cur>>}
    /\ raw' = DeleteMonth(raw, cur)
    /\ \E ok \in BOOLEAN :
         IF ok THEN /\ pc' = "delete"
                    /\ UNCHANGED raisedAt
         ELSE Raise
    /\ UNCHANGED <<files, stopFile, pauseFile, resumeFrom, tableExists, yyyy, mm,
                   created, skipped, summary, okLog, rawAtStart, rawAtTry,
                   stopSeenAt>>
    /\ UNCHANGED <<projVars, cleanVars, stageVars, loadMainVars>>

\* load.py 210: DESCRIBE SELECT * FROM read_parquet(url)
BuildProjection ==
    /\ pc = "project"
    /\ issued' = issued \cup {<<"describe", cur>>}
    /\ \E ok \in BOOLEAN :
         IF ok THEN /\ pc' = "delete"
                    /\ UNCHANGED raisedAt
         ELSE Raise
    /\ UNCHANGED <<files, stopFile, pauseFile, resumeFrom, tableExists, raw, yyyy, mm,
                   created, skipped, summary, okLog, rawAtStart, rawAtTry,
                   stopSeenAt>>
    /\ UNCHANGED <<projVars, cleanVars, stageVars, loadMainVars>>

\* load.py 213-217. Each statement is its own transaction (no BEGIN/COMMIT).
DeleteStep ==
    /\ pc = "delete"
    /\ issued' = issued \cup {<<"delete", cur>>}
    /\ \E ok \in BOOLEAN :
         IF ok THEN /\ raw' = DeleteMonth(raw, cur)
                    /\ pc' = "insert"
                    /\ UNCHANGED raisedAt
         ELSE /\ Raise
              /\ UNCHANGED raw
    /\ UNCHANGED <<files, stopFile, pauseFile, resumeFrom, tableExists, yyyy, mm,
                   created, skipped, summary, okLog, rawAtStart, rawAtTry,
                   stopSeenAt>>
    /\ UNCHANGED <<projVars, cleanVars, stageVars, loadMainVars>>

\* (a variant that looks at the stop marker before the transfer)
InsertStepHonoursStop ==
    /\ pc = "insert"
    /\ IF stopFile THEN /\ pc' = "stopped"
                        /\ UNCHANGED <<raw, issued, raisedAt>>
       ELSE /\ issued' = issued \cup {<<"insert", cur>>}
            /\ raw' = InsertFile(raw, cur)
            /\ pc' = "checkpoint"
            /\ UNCHANGED raisedAt
    /\ UNCHANGED <<files, stopFile, pauseFile, resumeFrom, tableExists, yyyy, mm,
                   created, skipped, summary, okLog, rawAtStart, rawAtTry,
                   stopSeenAt>>
    /\ UNCHANGED <<projVars, cleanVars, stageVars, loadMainVars>>

\* load.py 220-224
InsertStep ==
    /\ pc = "insert"
    /\ issued' = issued \cup {<<"insert", cur>>}
    /\ \E ok \in BOOLEAN :
         IF ok THEN /\ raw' = InsertFile(raw, cur)
                    /\ pc' = "checkpoint"
                    /\ UNCHANGED raisedAt
         ELSE /\ Raise
              /\ UNCHANGED raw
    /\ UNCHANGED <<files, stopFile, pauseFile, resumeFrom, tableExists, yyyy, mm,
                   created, skipped, summary, okLog, rawAtStart, rawAtTry,
                   stopSeenAt>>
    /\ UNCHANGED <<projVars, cleanVars, stageVars, loadMainVars>>

\* load.py 227-230
CheckpointStep ==
    /\ pc = "checkpoint"
    /\ issued' = issued \cup {<<"checkpoint", cur>>}
    /\ \E ok \in BOOLEAN :
         IF ok THEN /\ okLog' = okLog \cup {cur}
                    /\ pc' = "sleep"
                    /\ UNCHANGED raisedAt
         ELSE /\ Raise
              /\ UNCHANGED okLog
    /\ UNCHANGED <<files, stopFile, pauseFile, resumeFrom, tableExists, raw, yyyy, mm,
                   created, skipped, summary, rawAtStart, rawAtTry, stopSeenAt>>
    /\ UNCHANGED <<projVars, cleanVars, stageVars, loadMainVars>>

\* (a variant that records the period and gives up)
ExceptClauseGivesUp ==
    /\ pc = "except"
    /\ skipped' = Append(skipped, cur)
    /\ pc' = "fatal"
    /\ UNCHANGED <<files, stopFile, pauseFile, resumeFrom, tableExists, raw, yyyy, mm,
                   created, summary, issued, okLog, raisedAt, rawAtStart,
                   rawAtTry, stopSeenAt>>
    /\ UNCHANGED <<projVars, cleanVars, stageVars, loadMainVars>>

\* load.py 232-235
ExceptClause ==
    /\ pc = "except"
    /\ skipped' = Append(skipped, cur)
    /\ pc' = "sleep"
    /\ UNCHANGED <<files, stopFile, pauseFile, resumeFrom, tableExists, raw, yyyy, mm,
                   created, summary, issued, okLog, raisedAt, rawAtStart,
                   rawAtTry, stopSeenAt>>
    /\ UNCHANGED <<projVars, cleanVars, stageVars, loadMainVars>>

\* load.py 237, then the next iteration
RateLimitSleep ==
    /\ pc = "sleep"
    /\ NextIteration
    /\ pc' = "loop"
    /\ UNCHANGED <<files, stopFile, pauseFile, resumeFrom, tableExists, raw,
                   created, skipped, summary, issued, okLog, raisedAt, rawAtStart,
                   rawAtTry, stopSeenAt>>
    /\ UNCHANGED <<projVars, cleanVars, stageVars, loadMainVars>>

\* load.py 239-243
Finish ==
    /\ pc = "finish"
    /\ IF ~created THEN /\ pc' = "fatal"
                        /\ UNCHANGED summary
       ELSE /\ pc' = "done"
            /\ summary' = (skipped # <<>>)
    /\ UNCHANGED <<files, stopFile, pauseFile, resumeFrom, tableExists, raw, yyyy, mm,
                   created, skipped, issued, okLog, raisedAt, rawAtStart,
                   rawAtTry, stopSeenAt>>
    /\ UNCHANGED <<projVars, cleanVars, stageVars, loadMainVars>>

(***************************************************************************)
(* Environment: the operator creates and removes the control files.        *)
(* STOP.LOAD is read only at the top of an iteration and PAUSE.LOAD only   *)
(* in the poll, so removing STOP.LOAD before it is read, or touching       *)
(* PAUSE.LOAD away from the poll, gives no run that is not already here.   *)
(***************************************************************************)
TouchStop ==
    /\ Running
    /\ ~stopFile
    /\ stopFile' = TRUE
    /\ UNCHANGED <<files, pauseFile, resumeFrom, tableExists, raw, pc, yyyy, mm,
                   created, skipped, summary, issued, okLog, raisedAt, rawAtStart,
                   rawAtTry, stopSeenAt>>
    /\ UNCHANGED <<projVars, cleanVars, stageVars, loadMainVars>>

TouchPause ==
    /\ pc = "pause"
    /\ ~pauseFile
    /\ pauseFile' = TRUE
    /\ UNCHANGED <<files, stopFile, resumeFrom, tableExists, raw, pc, yyyy, mm,
                   created, skipped, summary, issued, okLog, raisedAt, rawAtStart,
                   rawAtTry, stopSeenAt>>
    /\ UNCHANGED <<projVars, cleanVars, stageVars, loadMainVars>>

RemovePause ==
    /\ pc = "pause"
    /\ pauseFile
    /\ pauseFile' = FALSE
    /\ UNCHANGED <<files, stopFile, resumeFrom, tableExists, raw, pc, yyyy, mm,
                   created, skipped, summary, issued, okLog, raisedAt, rawAtStart,
                   rawAtTry, stopSeenAt>>
    /\ UNCHANGED <<projVars, cleanVars, stageVars, loadMainVars>>

Next ==
    \/ CheckStop
    \/ MaybePause
    \/ ResumeGate
    \/ EnsureTable
    \/ BuildProjection
    \/ DeleteStep
    \/ InsertStep
    \/ CheckpointStep
    \/ ExceptClause
    \/ RateLimitSleep
    \/ Finish
    \/ TouchStop
    \/ TouchPause
    \/ RemovePause

Spec == Init /\ [][Next]_vars

(***************************************************************************)
(* Properties of the sequential Ingestor                                   *)
(***************************************************************************)
Range(q) == {q[i] : i \in DOMAIN q}

\* The periods the resume gate lets through.
PastGate == {p \in Periods : ~(resumeFrom # NoResume /\ PeriodBefore(p, resumeFrom))}

\* The periods whose try block was entered.
Attempted == okLog \cup raisedAt

\* A complete first load (no table before, no cutoff, nothing raised) leaves
\* FullLoad: the table Init offers as "loaded by an earlier run" is one the
\* program produces.
FirstLoadIsFullLoad ==
    (pc = "done" /\ rawAtStart = EmptyTable /\ resumeFrom = NoResume /\ raisedAt = {})
        => raw = FullLoad

\* C1: running the Ingestor again over the same periods, with the same remote
\* files all available, leaves the Raw Table as the first run left it.
C1_IdempotentReingestion ==
    (pc = "done" /\ rawAtStart = FullLoad /\ resumeFrom = NoResume /\ raisedAt = {})
        => raw = rawAtStart

\* C2: once the attempt on a period is over, the rows of the Raw Table in
\* that period's month range are the rows from before the attempt or the
\* rows of the period's file that fall in the range.
C2_AtomicReplace ==
    pc = "sleep" =>
        \/ RangePart(raw, cur) = RangePart(rawAtTry, cur)
        \/ RangePart(raw, cur) = RangePart(files[cur], cur)

\* C3: after a first load over all periods, every row of every successfully
\* loaded file is in the Raw Table as often as the successfully loaded files
\* hold it.
C3_ExactlyOnce ==
    (pc = "done" /\ rawAtStart = EmptyTable /\ resumeFrom = NoResume) =>
        \A p \in okLog : \A r \in PickVals :
            files[p][r] > 0 => raw[r] = SumOver([q \in okLog |-> files[q][r]], okLog)

\* C4: with a resume cutoff, no statement is issued for a period before the
\* cutoff, no row whose pickup lies before the cutoff is ever removed, and a
\* run that reaches the end of the loops has attempted every period from the
\* cutoff on.
C4_ResumeCorrect ==
    resumeFrom # NoResume =>
        /\ \A e \in issued : ~PeriodBefore(e[2], resumeFrom)
        /\ \A r \in PickVals :
              (~IsNull(r) /\ r < MonthStart(resumeFrom)) => raw[r] >= rawAtStart[r]
        /\ pc \in {"done", "fatal"} => Attempted = PastGate

C4_Witness ==
    /\ pc = "done"
    /\ resumeFrom = PeriodAt(3)
    /\ rawAtStart # EmptyTable
    /\ <<"insert", PeriodAt(4)>> \in issued
    /\ \E r \in PickVals : ~IsNull(r) /\ r < MonthStart(resumeFrom) /\ raw[r] > 0

\* C5: the stop marker acts only at the top of an iteration: when the check
\* before period k sees it the function returns, every period attempted so
\* far has finished (OK or skipped), nothing was issued for k or a later
\* period, and no step from inside a period ever ends in the stop return.
C5_StopAtBoundary ==
    /\ [](stopSeenAt # NoPeriod =>
            /\ pc = "stopped"
            /\ \A e \in issued : PeriodBefore(e[2], stopSeenAt)
            /\ Attempted = okLog \cup Range(skipped)
            /\ Attempted = {p \in PastGate : PeriodBefore(p, stopSeenAt)})
    /\ [][pc' = "stopped" => (pc \in {"loop", "stopped"} /\ stopFile)]_vars
    /\ [][pc = "stopped" => UNCHANGED <<raw, issued, skipped, okLog>>]_vars

C5_Witness ==
    /\ pc = "stopped"
    /\ stopSeenAt = PeriodAt(3)
    /\ okLog # {}
    /\ skipped # <<>>

\* C6: a run over all periods that loaded no period ends in the fatal error;
\* one that loaded some period returns normally.
C6_FatalWhenNothingLoaded ==
    (pc \in {"done", "fatal"} /\ resumeFrom = NoResume) =>
        IF okLog = {} THEN pc = "fatal" ELSE pc = "done"

\* C7: a failing period is recorded once and the loop goes on: the skipped
\* list is in period order without repetition, holds exactly the periods in
\* which a statement raised, and a run ends only when the loops are over or
\* the stop marker was seen, with every period past the gate attempted.
C7_BadMonthNeverAborts ==
    /\ \A i, j \in DOMAIN skipped : i < j => PeriodBefore(skipped[i], skipped[j])
    /\ Range(skipped) = IF pc = "except" THEN raisedAt \ {cur} ELSE raisedAt
    /\ okLog \cap raisedAt = {}
    /\ pc \in {"done", "fatal"} => (LoopExhausted /\ Attempted = PastGate)
    /\ pc = "stopped" => stopSeenAt = cur

C7_Witness ==
    /\ pc = "done"
    /\ Len(skipped) >= 2
    /\ okLog # {}
    /\ \E p \in raisedAt : <<"insert", p>> \in issued
    /\ \E p \in raisedAt : <<"delete", p>> \notin issued

(***************************************************************************)
(* Schema Negotiator on full rows: _keep_cols_for, _type_map_for,          *)
(* _ensure_table_schema, _build_projection_for_file and the INSERT of one  *)
(* period, with the target column list of the program.                     *)
(***************************************************************************)
COMMON_KEEP_COLS ==
    << "VendorID", "passenger_count", "trip_distance", "RatecodeID",
       "store_and_fwd_flag", "PULocationID", "DOLocationID", "payment_type",
       "fare_amount", "extra", "mta_tax", "tip_amount", "tolls_amount",
       "improvement_surcharge", "total_amount", "congestion_surcharge",
       "airport_fee" >>

TYPE_MAP_BASE ==
    [c \in Range(COMMON_KEEP_COLS) |->
        CASE c \in {"VendorID", "passenger_count", "RatecodeID", "PULocationID",
                    "DOLocationID", "payment_type"} -> "INTEGER"
          [] c = "store_and_fwd_flag" -> "VARCHAR"
          [] OTHER -> "DOUBLE"]

TableNames == {"raw_yellow_all", "raw_green_all"}

\* "yellow" in table_name, for the two names the loaders pass
IsYellow(t) == t = "raw_yellow_all"

PickupCol(t) == IF IsYellow(t) THEN "tpep_pickup_datetime" ELSE "lpep_pickup_datetime"

DropoffCol(t) == IF IsYellow(t) THEN "tpep_dropoff_datetime" ELSE "lpep_dropoff_datetime"

KeepColsFor(t) == <<PickupCol(t), DropoffCol(t)>> \o COMMON_KEEP_COLS

TypeMapFor(t) ==
    [c \in Range(KeepColsFor(t)) |->
        IF c \in {PickupCol(t), DropoffCol(t)} THEN "TIMESTAMP" ELSE TYPE_MAP_BASE[c]]

\* One entry of the select list: "c", or CAST(NULL AS type) AS "c".
PassThrough(c) == [kind |-> "column", col |-> c]

NullCast(type, c) == [kind |-> "null", type |-> type, col |-> c]

\* _build_projection_for_file: the loop over keep_cols, appending one
\* expression per column.
RECURSIVE ProjectionFrom(_, _, _, _, _)
ProjectionFrom(exprs, i, fileCols, keepCols, typeMap) ==
    IF i > Len(keepCols) THEN exprs
    ELSE LET c == keepCols[i]
             e == IF c \in fileCols THEN PassThrough(c) ELSE NullCast(typeMap[c], c)
         IN ProjectionFrom(Append(exprs, e), i + 1, fileCols, keepCols, typeMap)

\* (a variant that leaves out the columns the file lacks)
BuildProjectionPresentOnly(fileCols, keepCols, typeMap) ==
    LET present(c) == c \in fileCols
    IN [i \in DOMAIN SelectSeq(keepCols, present) |->
           PassThrough(SelectSeq(keepCols, present)[i])]

BuildProjectionForFile(fileCols, keepCols, typeMap) ==
    ProjectionFrom(<<>>, 1, fileCols, keepCols, typeMap)

\* _ensure_table_schema: CREATE TABLE with keep_cols in order when the table
\* is missing; otherwise ALTER TABLE ADD COLUMN, at the end, for each keep
\* column the table lacks. A table without columns stands for no table.
RECURSIVE AddMissing(_, _, _, _)
AddMissing(tblCols, i, keepCols, typeMap) ==
    IF i > Len(keepCols) THEN tblCols
    ELSE LET c == keepCols[i]
             present == {tblCols[k].name : k \in DOMAIN tblCols}
         IN AddMissing(IF c \in present THEN tblCols
                       ELSE Append(tblCols, [name |-> c, type |-> typeMap[c]]),
                       i + 1, keepCols, typeMap)

EnsureTableSchema(tblCols, keepCols, typeMap) ==
    IF tblCols = <<>>
    THEN [i \in DOMAIN keepCols |-> [name |-> keepCols[i], type |-> typeMap[keepCols[i]]]]
    ELSE AddMissing(tblCols, 1, keepCols, typeMap)

\* The value one select-list entry yields for one row of the file; a typed
\* NULL keeps its type.
TypedNull(type) == <<"NULL", type>>

ExprValue(e, fileRow) == IF e.kind = "column" THEN fileRow[e.col] ELSE TypedNull(e.type)

\* INSERT INTO t SELECT <select_list> FROM read_parquet(url): the i-th
\* expression fills the i-th column of the table, for every row of the file.
\* The statement is refused when the counts differ.
InsertSelect(tblCols, tblRows, selectList, fileRows) ==
    IF Len(selectList) # Len(tblCols) THEN tblRows
    ELSE tblRows \o
         [k \in DOMAIN fileRows |->
            [c \in {tblCols[i].name : i \in DOMAIN tblCols} |->
                LET i == CHOOSE j \in DOMAIN tblCols : tblCols[j].name = c
                IN ExprValue(selectList[i], fileRows[k])]]

\* Columns a remote file may carry beyond the target list.
ExtraCols == {"ehail_fee", "trip_type"}

\* At most MaxMissing target columns are absent from a file, and a file has
\* at most MaxFileRows rows.
MaxMissing == 2

MaxFileRows == 2

\* Row k of a file holds, in column c, the value <<c, k>>.
FileRowsOver(cols, n) == [k \in 1 .. n |-> [c \in cols |-> <<c, k>>]]

ProjInit ==
    /\ pjPc = "ensure"
    /\ pjTable \in TableNames
    /\ \E missing \in SUBSET Range(KeepColsFor(pjTable)), extra \in SUBSET ExtraCols :
          /\ Cardinality(missing) <= MaxMissing
          /\ pjFileCols = (Range(KeepColsFor(pjTable)) \ missing) \cup extra
    /\ \E n \in 0 .. MaxFileRows : pjFileRows = FileRowsOver(pjFileCols, n)
    /\ pjTblCols \in {<<>>, EnsureTableSchema(<<>>, KeepColsFor(pjTable), TypeMapFor(pjTable))}
    /\ pjTblRows = <<>>
    /\ pjSelect = <<>>
    /\ LoadParked
    /\ CleanParked
    /\ StageParked

\* load.py 205-207
PjEnsure ==
    /\ pjPc = "ensure"
    /\ pjTblCols' = EnsureTableSchema(pjTblCols, KeepColsFor(pjTable), TypeMapFor(pjTable))
    /\ pjPc' = "project"
    /\ UNCHANGED <<pjTable, pjFileCols, pjFileRows, pjTblRows, pjSelect>>
    /\ UNCHANGED <<loadVars, cleanVars, stageVars, loadMainVars>>

\* load.py 210
PjBuild ==
    /\ pjPc = "project"
    /\ pjSelect' = BuildProjectionForFile(pjFileCols, KeepColsFor(pjTable), TypeMapFor(pjTable))
    /\ pjPc' = "insert"
    /\ UNCHANGED <<pjTable, pjFileCols, pjFileRows, pjTblCols, pjTblRows>>
    /\ UNCHANGED <<loadVars, cleanVars, stageVars, loadMainVars>>

\* load.py 220-224
PjInsert ==
    /\ pjPc = "insert"
    /\ pjTblRows' = InsertSelect(pjTblCols, pjTblRows, pjSelect, pjFileRows)
    /\ pjPc' = "done"
    /\ UNCHANGED <<pjTable, pjFileCols, pjFileRows, pjTblCols, pjSelect>>
    /\ UNCHANGED <<loadVars, cleanVars, stageVars, loadMainVars>>

ProjNext ==
    \/ PjEnsure
    \/ PjBuild
    \/ PjInsert

SpecProjection == ProjInit /\ [][ProjNext]_vars

\* C8: the select list has one entry per target column, in target order:
\* the column itself when the file has it, a NULL of the target's type when
\* not; every inserted row has exactly the target columns, with the file's
\* value or that typed NULL in each, and as many rows arrive as the file has.
C8_SchemaUniformity ==
    LET keep == KeepColsFor(pjTable)
        tmap == TypeMapFor(pjTable)
    IN /\ pjPc \in {"insert", "done"} =>
            /\ Len(pjSelect) = Len(keep)
            /\ \A i \in DOMAIN keep :
                  /\ pjSelect[i].col = keep[i]
                  /\ (keep[i] \in pjFileCols) => pjSelect[i].kind = "column"
                  /\ (keep[i] \notin pjFileCols) =>
                        (pjSelect[i].kind = "null" /\ pjSelect[i].type = tmap[keep[i]])
       /\ pjPc = "done" =>
            /\ Len(pjTblRows) = Len(pjFileRows)
            /\ \A k \in DOMAIN pjTblRows :
                  /\ DOMAIN pjTblRows[k] = Range(keep)
                  /\ \A c \in Range(keep) :
                        pjTblRows[k][c] = IF c \in pjFileCols THEN pjFileRows[k][c]
                                          ELSE TypedNull(tmap[c])

C8_Witness ==
    /\ pjPc = "done"
    /\ "congestion_surcharge" \notin pjFileCols
    /\ "ehail_fee" \in pjFileCols
    /\ Len(pjTblRows) = 2
    /\ pjTblRows[2]["congestion_surcharge"] = TypedNull("DOUBLE")
    /\ pjTblRows[2]["trip_distance"] = pjFileRows[2]["trip_distance"]

(***************************************************************************)
(* clean_one: a working copy of the Raw Table, then six DELETE steps.      *)
(* A row of the cleaning stage carries the four columns the steps read.    *)
(* Timestamps are kept at day granularity: a timestamp is a day number,    *)
(* INTERVAL 1 DAY is 1, and a year has DaysPerYear days.                   *)
(***************************************************************************)
YEAR_MIN == 2015

YEAR_MAX == 2024

DaysPerYear == 365

MaxDistance == 100

Day(y, d) == y * DaysPerYear + d

\* EXTRACT(YEAR FROM ts)
ExtractYear(ts) == IF IsNull(ts) THEN NULL ELSE ts \div DaysPerYear

\* (drop - pick)
Minus3(a, b) == IF IsNull(a) \/ IsNull(b) THEN NULL ELSE a - b

\* The WHERE conditions of the six steps (clean.py 93-96, 116, 133, 147, 161, 178).
BadYears(r) ==
    Not3(And3(Between3(ExtractYear(r.pick), YEAR_MIN, YEAR_MAX),
              Between3(ExtractYear(r.drop), YEAR_MIN, YEAR_MAX)))

\* (a variant without COALESCE)
ZeroPaxNoCoalesce(r) == Eq3(r.pax, 0)

ZeroPax(r) == Eq3(Coalesce(r.pax, 0), 0)

\* (a variant with < in place of <=)
DistLtZero(r) == Lt3(r.dist, 0)

DistLeZero(r) == Le3(r.dist, 0)

DistGt100(r) == Gt3(r.dist, MaxDistance)

NegDuration(r) == Lt3(r.drop, r.pick)

Over24h(r) == Gt3(Minus3(r.drop, r.pick), 1)

StepCond(k, r) ==
    CASE k = 1 -> BadYears(r)
      [] k = 2 -> ZeroPax(r)
      [] k = 3 -> DistLeZero(r)
      [] k = 4 -> DistGt100(r)
      [] k = 5 -> NegDuration(r)
      [] k = 6 -> Over24h(r)

\* (a variant that counts every row whose condition is not false)
RECURSIVE CountWhereNotFalse(_, _)
CountWhereNotFalse(t, k) ==
    IF t = <<>> THEN 0
    ELSE (IF StepCond(k, Head(t)) # "F" THEN 1 ELSE 0) + CountWhereNotFalse(Tail(t), k)

\* SELECT COUNT(*) FROM t WHERE cond  /  DELETE FROM t WHERE cond
RECURSIVE CountWhere(_, _)
CountWhere(t, k) ==
    IF t = <<>> THEN 0
    ELSE (IF StepCond(k, Head(t)) = "T" THEN 1 ELSE 0) + CountWhere(Tail(t), k)

\* (a variant of step 5 that swaps reversed timestamps instead of removing the row)
RECURSIVE DeleteWhereSwapsReversed(_, _)
DeleteWhereSwapsReversed(t, k) ==
    IF t = <<>> THEN <<>>
    ELSE IF StepCond(k, Head(t)) = "T"
         THEN (IF k = 5 THEN <<[Head(t) EXCEPT !.pick = Head(t).drop, !.drop = Head(t).pick]>>
                        ELSE <<>>)
              \o DeleteWhereSwapsReversed(Tail(t), k)
    ELSE <<Head(t)>> \o DeleteWhereSwapsReversed(Tail(t), k)

RECURSIVE DeleteWhere(_, _)
DeleteWhere(t, k) ==
    IF t = <<>> THEN <<>>
    ELSE IF StepCond(k, Head(t)) = "T" THEN DeleteWhere(Tail(t), k)
    ELSE <<Head(t)>> \o DeleteWhere(Tail(t), k)

\* Column values a raw row may hold.
TsVals == {NULL, Day(YEAR_MIN - 1, DaysPerYear - 1), Day(YEAR_MIN, 0), Day(YEAR_MIN, 1),
           Day(YEAR_MIN, 2), Day(YEAR_MAX, DaysPerYear - 1), Day(YEAR_MAX + 1, 0)}

PaxVals == {NULL, -1, 0, 1}

DistVals == {NULL, -5, 0, 1, MaxDistance, MaxDistance + 50}

RawRows == [pick : TsVals, drop : TsVals, pax : PaxVals, dist : DistVals]

\* A trip no step removes.
GoodRow == [pick |-> Day(YEAR_MIN, 0), drop |-> Day(YEAR_MIN, 1), pax |-> 1, dist |-> 1]

Copies(r, n) == [i \in 1 .. n |-> r]

\* The Raw Table holds up to MaxCopies copies of one arbitrary row, and up to
\* MaxCopies copies of a good one.
MaxCopies == 2

\* On entry to clean_one (clean.py 71-75) the Cleaned Table is absent, or is
\* there from an earlier cleaning.
CleanInit ==
    /\ clPc = "copy"
    /\ \E r \in RawRows, n \in 1 .. MaxCopies, g \in 0 .. MaxCopies :
          clSrc = Copies(r, n) \o Copies(GoodRow, g)
    /\ clDestExists \in BOOLEAN
    /\ clDest = IF clDestExists THEN <<GoodRow>> ELSE <<>>
    /\ clLog = <<>>
    /\ clCheckpoints = <<>>
    /\ LoadParked
    /\ ProjParked
    /\ StageParked

\* clean.py 77-87: DROP TABLE IF EXISTS dest; CREATE TABLE dest AS SELECT *
\* FROM src; count; checkpoint.
CleanCopy ==
    /\ clPc = "copy"
    /\ clDest' = clSrc
    /\ clDestExists' = TRUE
    /\ clLog' = <<Len(clSrc)>>
    /\ clCheckpoints' = <<Len(clDest')>>
    /\ clPc' = "step1"
    /\ UNCHANGED clSrc
    /\ UNCHANGED <<loadVars, projVars, stageVars, loadMainVars>>

\* One step: count the violating rows, delete them, re-count, checkpoint.
CleanStep(k, here, next) ==
    /\ clPc = here
    /\ clDest' = DeleteWhere(clDest, k)
    /\ clLog' = clLog \o <<CountWhere(clDest, k), Len(clDest')>>
    /\ clCheckpoints' = Append(clCheckpoints, Len(clDest'))
    /\ clPc' = next
    /\ UNCHANGED <<clSrc, clDestExists>>
    /\ UNCHANGED <<loadVars, projVars, stageVars, loadMainVars>>

\* clean.py 89-110
Step1Years == CleanStep(1, "step1", "step2")

\* clean.py 112-127
Step2Passengers == CleanStep(2, "step2", "step3")

\* clean.py 129-141
Step3DistanceLow == CleanStep(3, "step3", "step4")

\* clean.py 143-155
Step4DistanceHigh == CleanStep(4, "step4", "step5")

\* clean.py 157-172
Step5NegativeDuration == CleanStep(5, "step5", "step6")

\* clean.py 174-189
Step6Over24h == CleanStep(6, "step6", "final")

\* clean.py 191-195
CleanFinal ==
    /\ clPc = "final"
    /\ clLog' = Append(clLog, Len(clDest))
    /\ clPc' = "done"
    /\ UNCHANGED <<clSrc, clDest, clDestExists, clCheckpoints>>
    /\ UNCHANGED <<loadVars, projVars, stageVars, loadMainVars>>

CleanNext ==
    \/ CleanCopy
    \/ Step1Years
    \/ Step2Passengers
    \/ Step3DistanceLow
    \/ Step4DistanceHigh
    \/ Step5NegativeDuration
    \/ Step6Over24h
    \/ CleanFinal

SpecClean == CleanInit /\ [][CleanNext]_vars

Cleaned == clPc = "done" /\ clDestExists

\* C9 as stated: every cleaned row has a passenger count above zero.
C9_PassengersPositive ==
    Cleaned => \A i \in DOMAIN clDest : ~IsNull(clDest[i].pax) /\ clDest[i].pax > 0

\* C9 as the code has it: every cleaned row has a passenger count that is
\* neither missing nor zero, and every raw row with such a count that no
\* other step removes is kept, a negative count included.
C9_PassengersNotZero ==
    Cleaned =>
        /\ \A i \in DOMAIN clDest : ~IsNull(clDest[i].pax) /\ clDest[i].pax # 0
        /\ \A i \in DOMAIN clSrc :
              (/\ ~IsNull(clSrc[i].pax)
               /\ clSrc[i].pax < 0
               /\ \A k \in {1, 3, 4, 5, 6} : StepCond(k, clSrc[i]) # "T")
                  => \E j \in DOMAIN clDest : clDest[j] = clSrc[i]

C9_Witness ==
    /\ Cleaned
    /\ \E i \in DOMAIN clSrc : IsNull(clSrc[i].pax)
    /\ Len(clDest) = 2
    /\ Len(clSrc) = 4

\* C10: every cleaned row satisfies the six predicates: both years within
\* 2015-2024, distance above zero and at most 100, dropoff not before
\* pickup, duration at most one day.
RowValid(r) ==
    /\ ~IsNull(r.pick) /\ ExtractYear(r.pick) \in YEAR_MIN .. YEAR_MAX
    /\ ~IsNull(r.drop) /\ ExtractYear(r.drop) \in YEAR_MIN .. YEAR_MAX
    /\ ~IsNull(r.dist) /\ r.dist > 0 /\ r.dist <= MaxDistance
    /\ r.drop >= r.pick
    /\ r.drop - r.pick <= 1

C10_AllPredicatesHold ==
    Cleaned => \A i \in DOMAIN clDest : RowValid(clDest[i])

(***************************************************************************)
(* The six exclusion steps of clean_one, applied in an arbitrary order.    *)
(***************************************************************************)
NumSteps == 6

Steps == 1 .. NumSteps

\* The six DELETE statements in the order clean_one issues them.
RECURSIVE CleanFrom(_, _)
CleanFrom(t, k) == IF k > NumSteps THEN t ELSE CleanFrom(DeleteWhere(t, k), k + 1)

CleanInOrder(t) == CleanFrom(t, 1)

\* The Raw Table holds up to MaxCopies copies of one arbitrary row and a
\* good one; the working copy is CREATE TABLE dest AS SELECT * FROM src.
OrderInit ==
    /\ \E r \in RawRows, n \in 1 .. MaxCopies : aoSrc = Copies(r, n) \o <<GoodRow>>
    /\ aoTbl = aoSrc
    /\ aoApplied = {}
    /\ aoFirst = 0
    /\ LoadParked
    /\ ProjParked
    /\ CleanParked
    /\ VerifyParked
    /\ CleanMainParked
    /\ LoadMainParked

\* One of the six DELETE statements that has not run yet.
ApplyStep ==
    /\ \E k \in Steps \ aoApplied :
          /\ aoTbl' = DeleteWhere(aoTbl, k)
          /\ aoApplied' = aoApplied \cup {k}
          /\ aoFirst' = IF aoApplied = {} THEN k ELSE aoFirst
    /\ UNCHANGED aoSrc
    /\ UNCHANGED <<loadVars, projVars, cleanVars, verifyVars, cleanMainVars, loadMainVars>>

OrderNext ==
    \/ ApplyStep

SpecAnyOrder == OrderInit /\ [][OrderNext]_vars

\* C11: whatever the order in which the six steps are applied, the rows left
\* are the rows clean_one's own order leaves.
C11_OrderInvariant ==
    aoApplied = Steps => aoTbl = CleanInOrder(aoSrc)

C11_Witness ==
    /\ aoApplied = Steps
    /\ aoFirst = 6
    /\ Len(aoSrc) = 3
    /\ Len(aoTbl) = 1
    /\ NegDuration(aoSrc[1]) = "T"

(***************************************************************************)
(* verify_one: six counting queries, a line per label, an aggregate status *)
(***************************************************************************)
\* The WHERE conditions of `checks`, in list order (clean.py 208-219).
VerifyCond(j, r) ==
    CASE j = 1 -> Eq3(Coalesce(r.pax, 0), 0)
      [] j = 2 -> Le3(r.dist, 0)
      [] j = 3 -> Gt3(r.dist, 100)
      [] j = 4 -> Lt3(r.drop, r.pick)
      [] j = 5 -> Gt3(Minus3(r.drop, r.pick), 1)
      [] j = 6 -> Not3(And3(Between3(ExtractYear(r.pick), YEAR_MIN, YEAR_MAX),
                            Between3(ExtractYear(r.drop), YEAR_MIN, YEAR_MAX)))

NumChecks == 6

\* SELECT COUNT(*) FROM tbl WHERE <condition j>
RECURSIVE VerifyCount(_, _)
VerifyCount(t, j) ==
    IF t = <<>> THEN 0
    ELSE (IF VerifyCond(j, Head(t)) = "T" THEN 1 ELSE 0) + VerifyCount(Tail(t), j)

\* verify_one called on a table with any content.
VerifyInit ==
    /\ vfPc = "check"
    /\ \E r \in RawRows, n \in 1 .. MaxCopies, g \in 0 .. MaxCopies :
          vfTbl = Copies(r, n) \o Copies(GoodRow, g)
    /\ vfIdx = 1
    /\ vfCounts = <<>>
    /\ vfAllOk = TRUE
    /\ vfStatus = "none"
    /\ LoadParked
    /\ ProjParked
    /\ CleanParked
    /\ OrderParked
    /\ CleanMainParked
    /\ LoadMainParked

\* (a variant that removes the rows it has counted)
VerifyCheckDeletes ==
    /\ vfPc = "check"
    /\ vfCounts' = Append(vfCounts, VerifyCount(vfTbl, vfIdx))
    /\ vfAllOk' = IF VerifyCount(vfTbl, vfIdx) # 0 THEN FALSE ELSE vfAllOk
    /\ vfTbl' = SelectSeq(vfTbl, LAMBDA r : VerifyCond(vfIdx, r) # "T")
    /\ vfIdx' = vfIdx + 1
    /\ vfPc' = IF vfIdx = NumChecks THEN "status" ELSE "check"
    /\ UNCHANGED vfStatus
    /\ UNCHANGED <<loadVars, projVars, cleanVars, orderVars, cleanMainVars, loadMainVars>>

\* clean.py 223-229: one pass of `for label, sql in checks`
VerifyCheck ==
    /\ vfPc = "check"
    /\ \E ok \in BOOLEAN :
         IF ok THEN /\ vfCounts' = Append(vfCounts, VerifyCount(vfTbl, vfIdx))
                    /\ vfAllOk' = IF VerifyCount(vfTbl, vfIdx) # 0 THEN FALSE ELSE vfAllOk
                    /\ vfIdx' = vfIdx + 1
                    /\ vfPc' = IF vfIdx = NumChecks THEN "status" ELSE "check"
         ELSE /\ vfPc' = "raised"
              /\ UNCHANGED <<vfCounts, vfAllOk, vfIdx>>
    /\ UNCHANGED <<vfTbl, vfStatus>>
    /\ UNCHANGED <<loadVars, projVars, cleanVars, orderVars, cleanMainVars, loadMainVars>>

\* clean.py 231-234
VerifyStatus ==
    /\ vfPc = "status"
    /\ vfStatus' = IF vfAllOk THEN "CLEAN PASSED" ELSE "CLEAN FAILED"
    /\ vfPc' = "done"
    /\ UNCHANGED <<vfTbl, vfIdx, vfCounts, vfAllOk>>
    /\ UNCHANGED <<loadVars, projVars, cleanVars, orderVars, cleanMainVars, loadMainVars>>

VerifyNext ==
    \/ VerifyCheck
    \/ VerifyStatus

SpecVerify == VerifyInit /\ [][VerifyNext]_vars

\* A row violates the predicate behind label j of the checklist: passenger
\* count missing or zero; distance not above zero; distance not at most 100;
\* dropoff before pickup; duration not at most a day; a year not in range.
\* A missing value satisfies no predicate.
Violates(j, r) ==
    CASE j = 1 -> IsNull(r.pax) \/ r.pax = 0
      [] j = 2 -> IsNull(r.dist) \/ r.dist <= 0
      [] j = 3 -> IsNull(r.dist) \/ r.dist > MaxDistance
      [] j = 4 -> IsNull(r.pick) \/ IsNull(r.drop) \/ r.drop < r.pick
      [] j = 5 -> IsNull(r.pick) \/ IsNull(r.drop) \/ r.drop - r.pick > 1
      [] j = 6 -> \/ IsNull(r.pick) \/ IsNull(r.drop)
                  \/ ExtractYear(r.pick) \notin YEAR_MIN .. YEAR_MAX
                  \/ ExtractYear(r.drop) \notin YEAR_MIN .. YEAR_MAX

NumViolating(t, j) == Cardinality({i \in DOMAIN t : Violates(j, t[i])})

\* C12: every count verify_one reports is the number of rows violating the
\* predicate of its label, and the status is CLEAN PASSED exactly when all
\* six counts are zero.
C12_VerifierSound ==
    vfPc = "done" =>
        /\ \A j \in 1 .. NumChecks : vfCounts[j] = NumViolating(vfTbl, j)
        /\ vfStatus = (IF \A j \in 1 .. NumChecks : vfCounts[j] = 0
                        THEN "CLEAN PASSED" ELSE "CLEAN FAILED")

\* The part of C12 the code does have: a table whose only bad rows have a
\* distance of -5 gets a non-zero count under "trip_distance <= 0" alone,
\* and the status follows the counts.
VerifierOnNegativeDistance ==
    (vfPc = "done" /\ vfTbl[1] = [GoodRow EXCEPT !.dist = -5]) =>
        /\ vfCounts[2] > 0
        /\ \A j \in (1 .. NumChecks) \ {2} : vfCounts[j] = 0
        /\ vfStatus = "CLEAN FAILED"

(***************************************************************************)
(* clean_one followed by verify_one on the table it built, as main calls   *)
(* them for one vehicle class.                                             *)
(***************************************************************************)
\* clean.py 263-264: verify_one(con, <cleaned table>, ...)
VerifyCall ==
    /\ clPc = "done"
    /\ vfPc = "idle"
    /\ vfTbl' = clDest
    /\ vfPc' = "check"
    /\ UNCHANGED <<vfIdx, vfCounts, vfAllOk, vfStatus>>
    /\ UNCHANGED <<loadVars, projVars, cleanVars, orderVars, cleanMainVars, loadMainVars>>

CleanVerifyNext ==
    \/ CleanCopy
    \/ Step1Years
    \/ Step2Passengers
    \/ Step3DistanceLow
    \/ Step4DistanceHigh
    \/ Step5NegativeDuration
    \/ Step6Over24h
    \/ CleanFinal
    \/ VerifyCall
    \/ VerifyCheck
    \/ VerifyStatus

SpecCleanVerify == CleanInit /\ [][CleanVerifyNext]_vars

\* The row matches at least one of the six exclusion conditions of clean_one.
Excluded(r) == \E k \in Steps : StepCond(k, r) = "T"

Kept(r) == ~Excluded(r)

Src(cls) == IF cls = "yellow" THEN YELLOW_RAW ELSE GREEN_RAW

Dest(cls) == IF cls = "yellow" THEN YELLOW_CLEAN ELSE GREEN_CLEAN

BadDistRow == [GoodRow EXCEPT !.dist = MaxDistance + 50]

NullDistRow == [GoodRow EXCEPT !.dist = NULL]

ZeroPaxRow == [GoodRow EXCEPT !.pax = 0]

\* What load.py left: a raw table is missing, or holds one of these.
RawContents ==
    {Absent, Present(<<GoodRow>>), Present(<<BadDistRow, GoodRow>>),
     Present(<<ZeroPaxRow, NullDistRow, GoodRow, GoodRow>>)}

CleanMainInit ==
    /\ cmPc = "connect"
    /\ cmCls = "yellow"
    /\ cmStep = 1
    /\ \E y \in RawContents, g \in RawContents, stale \in BOOLEAN :
          cmTables = [t \in StoreTables |->
                         CASE t = YELLOW_RAW -> y
                           [] t = GREEN_RAW -> g
                           [] OTHER -> IF stale THEN Present(<<BadDistRow>>) ELSE Absent]
    /\ cmConn = "none"
    /\ cmConVar = FALSE
    /\ cmOutcome = "running"
    /\ cmLogged = FALSE
    /\ cmStatuses = <<>>
    /\ cmDropped = {}
    /\ cmRerun = FALSE
    /\ cmFirst = NoFirstRun
    /\ LoadParked
    /\ ProjParked
    /\ CleanParked
    /\ OrderParked
    /\ VerifyParked
    /\ LoadMainParked

\* clean.py 241 with _connect (40-58): duckdb.connect may raise; so may a
\* setup statement after it, and then `con = _connect()` assigns nothing.
CmConnect ==
    /\ cmPc = "connect"
    /\ \E outcome \in {"connect_raised", "setup_raised", "returned"} :
         CASE outcome = "connect_raised" ->
                /\ cmPc' = "except"
                /\ UNCHANGED <<cmConn, cmConVar>>
           [] outcome = "setup_raised" ->
                /\ cmConn' = "open"
                /\ cmPc' = "except"
                /\ UNCHANGED cmConVar
           [] outcome = "returned" ->
                /\ cmConn' = "open"
                /\ cmConVar' = TRUE
                /\ cmPc' = "drop"
    /\ UNCHANGED <<cmCls, cmStep, cmTables, cmOutcome,
                   cmLogged, cmStatuses, cmDropped, cmRerun, cmFirst>>
    /\ UNCHANGED <<loadVars, projVars, cleanVars, orderVars, verifyVars, loadMainVars>>

\* (a variant that keeps a destination table it finds and goes on from it)
CmCleanDropResumes ==
    /\ cmPc = "drop"
    /\ cmPc' = IF cmTables[Dest(cmCls)].exists THEN "copied" ELSE "create"
    /\ UNCHANGED <<cmCls, cmStep, cmTables, cmConn, cmConVar, cmOutcome,
                   cmLogged, cmStatuses, cmDropped, cmRerun, cmFirst>>
    /\ UNCHANGED <<loadVars, projVars, cleanVars, orderVars, verifyVars, loadMainVars>>

\* clean.py 79: DROP TABLE IF EXISTS dest
CmCleanDrop ==
    /\ cmPc = "drop"
    /\ \E ok \in BOOLEAN :
         IF ok THEN /\ cmTables' = [cmTables EXCEPT ![Dest(cmCls)] = Absent]
                    /\ cmPc' = "create"
         ELSE /\ cmPc' = "except"
              /\ UNCHANGED cmTables
    /\ UNCHANGED <<cmCls, cmStep, cmConn, cmConVar, cmOutcome,
                   cmLogged, cmStatuses, cmDropped, cmRerun, cmFirst>>
    /\ UNCHANGED <<loadVars, projVars, cleanVars, orderVars, verifyVars, loadMainVars>>

\* clean.py 82: CREATE TABLE dest AS SELECT * FROM src; raises when src is
\* missing.
CmCleanCreate ==
    /\ cmPc = "create"
    /\ \E ok \in BOOLEAN :
         IF ok /\ cmTables[Src(cmCls)].exists
         THEN /\ cmTables' = [cmTables EXCEPT ![Dest(cmCls)] = cmTables[Src(cmCls)]]
              /\ cmPc' = "copied"
         ELSE /\ cmPc' = "except"
              /\ UNCHANGED cmTables
    /\ UNCHANGED <<cmCls, cmStep, cmConn, cmConVar, cmOutcome,
                   cmLogged, cmStatuses, cmDropped, cmRerun, cmFirst>>
    /\ UNCHANGED <<loadVars, projVars, cleanVars, orderVars, verifyVars, loadMainVars>>

\* clean.py 83-87: count of the working copy, checkpoint
CmCleanCopied ==
    /\ cmPc = "copied"
    /\ \E ok \in BOOLEAN :
         IF ok THEN /\ cmPc' = "count"
                    /\ cmStep' = 1
         ELSE /\ cmPc' = "except"
              /\ UNCHANGED cmStep
    /\ UNCHANGED <<cmCls, cmTables, cmConn, cmConVar, cmOutcome,
                   cmLogged, cmStatuses, cmDropped, cmRerun, cmFirst>>
    /\ UNCHANGED <<loadVars, projVars, cleanVars, orderVars, verifyVars, loadMainVars>>

\* clean.py 91-98 (and 114, 131, 145, 159, 176): the COUNT of step cmStep
CmStepCount ==
    /\ cmPc = "count"
    /\ \E ok \in BOOLEAN : cmPc' = IF ok THEN "delete" ELSE "except"
    /\ UNCHANGED <<cmCls, cmStep, cmTables, cmConn, cmConVar,
                   cmOutcome, cmLogged, cmStatuses, cmDropped, cmRerun, cmFirst>>
    /\ UNCHANGED <<loadVars, projVars, cleanVars, orderVars, verifyVars, loadMainVars>>

\* clean.py 99-105 (and 119, 136, 150, 164, 181): the DELETE of step cmStep
CmStepDelete ==
    /\ cmPc = "delete"
    /\ \E ok \in BOOLEAN :
         IF ok THEN /\ cmTables' = [cmTables EXCEPT ![Dest(cmCls)].rows =
                                       DeleteWhere(cmTables[Dest(cmCls)].rows, cmStep)]
                    /\ cmPc' = "checkpoint"
         ELSE /\ cmPc' = "except"
              /\ UNCHANGED cmTables
    /\ UNCHANGED <<cmCls, cmStep, cmConn, cmConVar, cmOutcome,
                   cmLogged, cmStatuses, cmDropped, cmRerun, cmFirst>>
    /\ UNCHANGED <<loadVars, projVars, cleanVars, orderVars, verifyVars, loadMainVars>>

\* clean.py 106-110 (and the same after each step): re-count, checkpoint
CmStepCheckpoint ==
    /\ cmPc = "checkpoint"
    /\ \E ok \in BOOLEAN :
         IF ok THEN /\ cmPc' = IF cmStep = NumSteps THEN "final" ELSE "count"
                    /\ cmStep' = IF cmStep = NumSteps THEN cmStep ELSE cmStep + 1
         ELSE /\ cmPc' = "except"
              /\ UNCHANGED cmStep
    /\ UNCHANGED <<cmCls, cmTables, cmConn, cmConVar, cmOutcome,
                   cmLogged, cmStatuses, cmDropped, cmRerun, cmFirst>>
    /\ UNCHANGED <<loadVars, projVars, cleanVars, orderVars, verifyVars, loadMainVars>>

\* clean.py 191-195, then back in main: 248-250 or 252
CmCleanFinal ==
    /\ cmPc = "final"
    /\ \E ok \in BOOLEAN :
         IF ok THEN /\ cmPc' = IF cmCls = "yellow" THEN "drop" ELSE "summary"
                    /\ cmCls' = "green"
         ELSE /\ cmPc' = "except"
              /\ UNCHANGED cmCls
    /\ UNCHANGED <<cmStep, cmTables, cmConn, cmConVar, cmOutcome,
                   cmLogged, cmStatuses, cmDropped, cmRerun, cmFirst>>
    /\ UNCHANGED <<loadVars, projVars, cleanVars, orderVars, verifyVars, loadMainVars>>

\* clean.py 253-260: the two post-clean counts
CmSummary ==
    /\ cmPc = "summary"
    /\ \E ok \in BOOLEAN :
         IF ok THEN /\ cmPc' = "verify"
                    /\ cmCls' = "yellow"
         ELSE /\ cmPc' = "except"
              /\ UNCHANGED cmCls
    /\ UNCHANGED <<cmStep, cmTables, cmConn, cmConVar, cmOutcome,
                   cmLogged, cmStatuses, cmDropped, cmRerun, cmFirst>>
    /\ UNCHANGED <<loadVars, projVars, cleanVars, orderVars, verifyVars, loadMainVars>>

\* (a variant that verifies the raw table)
CmVerifyCallOnRaw ==
    /\ cmPc = "verify"
    /\ cmPc' = "verifying"
    /\ vfPc' = "check"
    /\ vfTbl' = cmTables[Src(cmCls)].rows
    /\ vfIdx' = 1
    /\ vfCounts' = <<>>
    /\ vfAllOk' = TRUE
    /\ vfStatus' = "none"
    /\ UNCHANGED <<cmCls, cmStep, cmTables, cmConn, cmConVar,
                   cmOutcome, cmLogged, cmStatuses, cmDropped, cmRerun, cmFirst>>
    /\ UNCHANGED <<loadVars, projVars, cleanVars, orderVars, loadMainVars>>

\* clean.py 263, 264: verify_one(con, YELLOW_CLEAN / GREEN_CLEAN, ...)
CmVerifyCall ==
    /\ cmPc = "verify"
    /\ cmPc' = "verifying"
    /\ vfPc' = "check"
    /\ vfTbl' = cmTables[Dest(cmCls)].rows
    /\ vfIdx' = 1
    /\ vfCounts' = <<>>
    /\ vfAllOk' = TRUE
    /\ vfStatus' = "none"
    /\ UNCHANGED <<cmCls, cmStep, cmTables, cmConn, cmConVar,
                   cmOutcome, cmLogged, cmStatuses, cmDropped, cmRerun, cmFirst>>
    /\ UNCHANGED <<loadVars, projVars, cleanVars, orderVars, loadMainVars>>

\* verify_one returns (it returns nothing: main does not look at the
\* status), or a query of it raised.
CmVerifyReturn ==
    /\ cmPc = "verifying"
    /\ vfPc \in {"done", "raised"}
    /\ IF vfPc = "raised"
       THEN /\ cmPc' = "except"
            /\ UNCHANGED <<cmCls, cmStatuses>>
       ELSE /\ cmStatuses' = Append(cmStatuses, vfStatus)
            /\ cmPc' = IF cmCls = "yellow" THEN "verify" ELSE "dropraw"
            /\ cmCls' = IF cmCls = "yellow" THEN "green" ELSE "yellow"
    /\ vfPc' = "idle"
    /\ vfTbl' = <<>>
    /\ vfIdx' = 1
    /\ vfCounts' = <<>>
    /\ vfAllOk' = TRUE
    /\ vfStatus' = "none"
    /\ UNCHANGED <<cmStep, cmTables, cmConn, cmConVar,
                   cmOutcome, cmLogged, cmDropped, cmRerun, cmFirst>>
    /\ UNCHANGED <<loadVars, projVars, cleanVars, orderVars, loadMainVars>>

\* clean.py 269, 270: DROP TABLE IF EXISTS raw_yellow_all / raw_green_all
CmDropRaw ==
    /\ cmPc = "dropraw"
    /\ \E ok \in BOOLEAN :
         IF ok THEN /\ cmTables' = [cmTables EXCEPT ![Src(cmCls)] = Absent]
                    /\ cmDropped' = cmDropped \cup {Src(cmCls)}
                    /\ cmPc' = IF cmCls = "yellow" THEN "dropraw" ELSE "compact"
                    /\ cmCls' = "green"
         ELSE /\ cmPc' = "except"
              /\ UNCHANGED <<cmTables, cmDropped, cmCls>>
    /\ UNCHANGED <<cmStep, cmConn, cmConVar, cmOutcome,
                   cmLogged, cmStatuses, cmRerun, cmFirst>>
    /\ UNCHANGED <<loadVars, projVars, cleanVars, orderVars, verifyVars, loadMainVars>>

\* clean.py 271-279: checkpoint, VACUUM
CmCompact ==
    /\ cmPc = "compact"
    /\ \E ok \in BOOLEAN :
         IF ok THEN /\ cmPc' = "finally"
                    /\ cmOutcome' = "ok"
         ELSE /\ cmPc' = "except"
              /\ UNCHANGED cmOutcome
    /\ UNCHANGED <<cmCls, cmStep, cmTables, cmConn, cmConVar,
                   cmLogged, cmStatuses, cmDropped, cmRerun, cmFirst>>
    /\ UNCHANGED <<loadVars, projVars, cleanVars, orderVars, verifyVars, loadMainVars>>

\* (a variant whose except clause removes the cleaned tables)
CmExceptRollsBack ==
    /\ cmPc = "except"
    /\ cmLogged' = TRUE
    /\ cmOutcome' = "raised"
    /\ cmPc' = "finally"
    /\ cmTables' = [t \in StoreTables |->
                       IF t \in {YELLOW_CLEAN, GREEN_CLEAN} THEN Absent ELSE cmTables[t]]
    /\ UNCHANGED <<cmCls, cmStep, cmConn,
                   cmConVar, cmStatuses, cmDropped, cmRerun, cmFirst>>
    /\ UNCHANGED <<loadVars, projVars, cleanVars, orderVars, verifyVars, loadMainVars>>

\* clean.py 280-282: log the error, raise it again
CmExcept ==
    /\ cmPc = "except"
    /\ cmLogged' = TRUE
    /\ cmOutcome' = "raised"
    /\ cmPc' = "finally"
    /\ UNCHANGED <<cmCls, cmStep, cmTables, cmConn,
                   cmConVar, cmStatuses, cmDropped, cmRerun, cmFirst>>
    /\ UNCHANGED <<loadVars, projVars, cleanVars, orderVars, verifyVars, loadMainVars>>

\* clean.py 283-286: `if con: con.close()`
CmFinally ==
    /\ cmPc = "finally"
    /\ cmConn' = IF cmConVar THEN "closed" ELSE cmConn
    /\ cmPc' = "exit"
    /\ UNCHANGED <<cmCls, cmStep, cmTables, cmConVar, cmOutcome,
                   cmLogged, cmStatuses, cmDropped, cmRerun, cmFirst>>
    /\ UNCHANGED <<loadVars, projVars, cleanVars, orderVars, verifyVars, loadMainVars>>

\* The process is killed: nothing of main runs any more; the store keeps
\* what the statements executed so far have committed.
CmCrash ==
    /\ cmPc # "exit"
    /\ cmPc' = "exit"
    /\ cmOutcome' = "crashed"
    /\ cmFirst' = IF cmRerun THEN cmFirst
                  ELSE [outcome |-> "crashed", tables |-> cmTables,
                        pc |-> cmPc, cls |-> cmCls, step |-> cmStep]
    /\ vfPc' = "idle"
    /\ vfTbl' = <<>>
    /\ vfIdx' = 1
    /\ vfCounts' = <<>>
    /\ vfAllOk' = TRUE
    /\ vfStatus' = "none"
    /\ UNCHANGED <<cmCls, cmStep, cmTables, cmConn, cmConVar,
                   cmLogged, cmStatuses, cmDropped, cmRerun>>
    /\ UNCHANGED <<loadVars, projVars, cleanVars, orderVars, loadMainVars>>

\* The stage is started again on the store the first run left.
CmRunAgain ==
    /\ cmPc = "exit"
    /\ ~cmRerun
    /\ cmRerun' = TRUE
    /\ cmFirst' = IF cmOutcome = "crashed" THEN cmFirst
                  ELSE [outcome |-> cmOutcome, tables |-> cmTables,
                        pc |-> cmPc, cls |-> cmCls, step |-> cmStep]
    /\ cmPc' = "connect"
    /\ cmCls' = "yellow"
    /\ cmStep' = 1
    /\ cmConn' = "none"
    /\ cmConVar' = FALSE
    /\ cmOutcome' = "running"
    /\ cmLogged' = FALSE
    /\ cmStatuses' = <<>>
    /\ cmDropped' = {}
    /\ UNCHANGED cmTables
    /\ UNCHANGED <<loadVars, projVars, cleanVars, orderVars, verifyVars, loadMainVars>>

CleanMainNext ==
    \/ CmConnect
    \/ CmCleanDrop
    \/ CmCleanCreate
    \/ CmCleanCopied
    \/ CmStepCount
    \/ CmStepDelete
    \/ CmStepCheckpoint
    \/ CmCleanFinal
    \/ CmSummary
    \/ CmVerifyCall
    \/ VerifyCheck
    \/ VerifyStatus
    \/ CmVerifyReturn
    \/ CmDropRaw
    \/ CmCompact
    \/ CmExcept
    \/ CmFinally
    \/ CmCrash
    \/ CmRunAgain

SpecCleanMain == CleanMainInit /\ [][CleanMainNext]_vars

C16_RerunKeepsCleaned ==
    (cmRerun /\ cmFirst.outcome = "ok" /\ cmPc = "exit" /\ cmOutcome # "crashed") =>
        \A t \in {YELLOW_CLEAN, GREEN_CLEAN} :
            cmTables[t].exists /\ cmTables[t] = cmFirst.tables[t]

\* (the cleaning half of C18) When the first run was killed during step j
\* of a class, j > 1, and the stage is started again, the cleaned table of
\* that class stays in place and gets back none of the rows the steps
\* before j removed.
CleanRestartKeepsSteps ==
    (/\ cmRerun
     /\ cmFirst.outcome = "crashed"
     /\ cmFirst.pc \in {"count", "delete", "checkpoint"}
     /\ cmFirst.step > 1) =>
        /\ cmTables[Dest(cmFirst.cls)].exists
        /\ Len(cmTables[Dest(cmFirst.cls)].rows) <= Len(cmFirst.tables[Dest(cmFirst.cls)].rows)

(***************************************************************************)
(* load.py main: connect, load_yellow, load_green, the emissions lookup,   *)
(* the summary; the finally clause closes the connection. A loader is      *)
(* followed one loop iteration at a time (the statements inside an         *)
(* iteration are the subject of Spec); _maybe_pause has returned when the  *)
(* iteration goes on.                                                      *)
(***************************************************************************)
LoadMainInit ==
    /\ lmPc = "connect"
    /\ lmTable = YELLOW_RAW
    /\ lmIdx = 1
    /\ lmCreated = FALSE
    /\ lmSkipped = <<>>
    /\ lmVisited = <<>>
    /\ lmStop = FALSE
    /\ \E ry \in {NoResume} \cup Periods, rg \in {NoResume, PeriodAt(2)} :
          lmResume = [t \in {YELLOW_RAW, GREEN_RAW} |-> IF t = YELLOW_RAW THEN ry ELSE rg]
    /\ lmConn = "none"
    /\ lmConVar = FALSE
    /\ lmOutcome = "running"
    /\ lmLog = {}
    /\ LoadParked
    /\ ProjParked
    /\ CleanParked
    /\ OrderParked
    /\ VerifyParked
    /\ CleanMainParked

\* load.py 311 with _connect (143-160): duckdb.connect may raise; so may a
\* setup statement after it (INSTALL httpfs, LOAD httpfs, the PRAGMAs,
\* SELECT version()), and then `con = _connect()` assigns nothing. main has
\* no except clause: the error goes to the finally clause and on.
LmConnect ==
    /\ lmPc = "connect"
    /\ \E outcome \in {"connect_raised", "setup_raised", "returned"} :
         CASE outcome = "connect_raised" ->
                /\ lmPc' = "finally"
                /\ lmOutcome' = "raised"
                /\ UNCHANGED <<lmConn, lmConVar, lmLog>>
           [] outcome = "setup_raised" ->
                /\ lmConn' = "open"
                /\ lmPc' = "finally"
                /\ lmOutcome' = "raised"
                /\ UNCHANGED <<lmConVar, lmLog>>
           [] outcome = "returned" ->
                /\ lmConn' = "open"
                /\ lmConVar' = TRUE
                /\ lmPc' = "entry"
                /\ lmLog' = lmLog \cup {<<"INFO", "DuckDB version">>,
                                         <<"INFO", "Connected to DuckDB instance">>}
                /\ UNCHANGED lmOutcome
    /\ UNCHANGED <<lmTable, lmIdx, lmCreated, lmSkipped,
                   lmVisited, lmStop, lmResume>>
    /\ UNCHANGED <<loadVars, projVars, cleanVars, stageVars>>

\* load.py 315 / 318 and 176-180: entry of _insert_rate_limited
LmLoaderEntry ==
    /\ lmPc = "entry"
    /\ lmCreated' = FALSE
    /\ lmSkipped' = <<>>
    /\ lmIdx' = 1
    /\ lmPc' = "loop"
    /\ UNCHANGED <<lmTable, lmVisited, lmStop,
                   lmResume, lmConn, lmConVar, lmOutcome, lmLog>>
    /\ UNCHANGED <<loadVars, projVars, cleanVars, stageVars>>

\* (a variant in which main goes to the emissions lookup after any loader)
AfterLoaderSkipsGreen == "emissions"

\* Where main goes on when a loader returns.
AfterLoader == IF lmTable = YELLOW_RAW THEN "entry" ELSE "emissions"

\* load.py 182-237: one iteration of the loops. The stop check returns;
\* the resume gate skips; the try block ends OK or in the except clause,
\* with `created` set unless _ensure_table_schema itself raised.
LmIteration ==
    /\ lmPc = "loop"
    /\ lmIdx <= NumPeriods
    /\ IF lmStop
       THEN /\ lmPc' = AfterLoader
            /\ lmTable' = GREEN_RAW
            /\ lmLog' = lmLog \cup {<<"INFO", "STOP.LOAD detected">>}
            /\ UNCHANGED <<lmIdx, lmCreated, lmSkipped, lmVisited>>
       ELSE /\ lmVisited' = Append(lmVisited, <<lmTable, PeriodAt(lmIdx)>>)
            /\ lmIdx' = lmIdx + 1
            /\ UNCHANGED <<lmPc, lmTable>>
            /\ IF lmResume[lmTable] # NoResume
                  /\ PeriodBefore(PeriodAt(lmIdx), lmResume[lmTable])
               THEN UNCHANGED <<lmCreated, lmSkipped, lmLog>>
               ELSE \E outcome \in {"ok", "ensure_raised", "raised"} :
                      /\ (outcome = "ensure_raised") => ~lmCreated
                      /\ lmCreated' = IF outcome = "ensure_raised" THEN FALSE ELSE TRUE
                      /\ lmSkipped' = IF outcome = "ok" THEN lmSkipped
                                       ELSE Append(lmSkipped, PeriodAt(lmIdx))
                      /\ lmLog' = lmLog \cup {IF outcome = "ok" THEN <<"INFO", "OK">>
                                                ELSE <<"WARNING", "SKIP">>}
    /\ UNCHANGED <<lmStop, lmResume, lmConn,
                   lmConVar, lmOutcome>>
    /\ UNCHANGED <<loadVars, projVars, cleanVars, stageVars>>

\* load.py 239-243: the loops are over
LmLoaderExit ==
    /\ lmPc = "loop"
    /\ lmIdx > NumPeriods
    /\ IF ~lmCreated THEN /\ lmPc' = "finally"
                          /\ lmOutcome' = "raised"
                          /\ UNCHANGED <<lmTable, lmLog>>
       ELSE /\ lmPc' = AfterLoader
            /\ lmTable' = GREEN_RAW
            /\ lmLog' = IF lmSkipped # <<>> THEN lmLog \cup {<<"WARNING", "skipped months">>}
                         ELSE lmLog
            /\ UNCHANGED lmOutcome
    /\ UNCHANGED <<lmIdx, lmCreated, lmSkipped, lmVisited,
                   lmStop, lmResume, lmConn, lmConVar>>
    /\ UNCHANGED <<loadVars, projVars, cleanVars, stageVars>>

\* load.py 321 with load_vehicle_emissions (255-283)
LmEmissions ==
    /\ lmPc = "emissions"
    /\ \E ok \in BOOLEAN :
         IF ok THEN /\ lmPc' = "summarize"
                    /\ lmLog' = lmLog \cup {<<"INFO", "Loading vehicle_emissions">>,
                                             <<"INFO", "vehicle_emissions loaded">>}
                    /\ UNCHANGED lmOutcome
         ELSE /\ lmPc' = "finally"
              /\ lmOutcome' = "raised"
              /\ lmLog' = lmLog \cup {<<"INFO", "Loading vehicle_emissions">>}
    /\ UNCHANGED <<lmTable, lmIdx, lmCreated, lmSkipped, lmVisited,
                   lmStop, lmResume, lmConn, lmConVar>>
    /\ UNCHANGED <<loadVars, projVars, cleanVars, stageVars>>

\* load.py 324-326 with summarize (287-304), whose counts catch their errors
LmSummarize ==
    /\ lmPc = "summarize"
    /\ lmPc' = "finally"
    /\ lmOutcome' = "ok"
    /\ lmLog' = lmLog \cup {<<"INFO", "row counts">>, <<"INFO", "Load stage completed">>}
    /\ UNCHANGED <<lmTable, lmIdx, lmCreated, lmSkipped, lmVisited,
                   lmStop, lmResume, lmConn, lmConVar>>
    /\ UNCHANGED <<loadVars, projVars, cleanVars, stageVars>>

\* load.py 327-330: `if con is not None: con.close()`
LmFinally ==
    /\ lmPc = "finally"
    /\ lmConn' = IF lmConVar THEN "closed" ELSE lmConn
    /\ lmLog' = IF lmConVar THEN lmLog \cup {<<"INFO", "Closed DuckDB connection">>}
                 ELSE lmLog
    /\ lmPc' = "exit"
    /\ UNCHANGED <<lmTable, lmIdx, lmCreated, lmSkipped, lmVisited,
                   lmStop, lmResume, lmConVar, lmOutcome>>
    /\ UNCHANGED <<loadVars, projVars, cleanVars, stageVars>>

\* The operator creates STOP.LOAD.
LmTouchStop ==
    /\ lmPc # "exit"
    /\ ~lmStop
    /\ lmStop' = TRUE
    /\ UNCHANGED <<lmPc, lmTable, lmIdx, lmCreated, lmSkipped, lmVisited,
                   lmResume, lmConn, lmConVar, lmOutcome, lmLog>>
    /\ UNCHANGED <<loadVars, projVars, cleanVars, stageVars>>

LoadMainNext ==
    \/ LmConnect
    \/ LmLoaderEntry
    \/ LmIteration
    \/ LmLoaderExit
    \/ LmEmissions
    \/ LmSummarize
    \/ LmFinally
    \/ LmTouchStop

SpecLoadMain == LoadMainInit /\ [][LoadMainNext]_vars

\* C15: when the load stage or the cleaning stage has left its main
\* function (normally, after a stop, or with an error raised by any
\* statement run after the connection was opened), no connection it opened
\* is still open.
C15_ConnectionClosed ==
    /\ (lmPc = "exit" /\ lmOutcome \in {"ok", "raised"}) => lmConn # "open"
    /\ (cmPc = "exit" /\ cmOutcome \in {"ok", "raised"}) => cmConn # "open"

\* (the same for the paths on which _connect returned)
ClosedWhenConnectReturned ==
    /\ (lmPc = "exit" /\ lmConVar) => lmConn = "closed"
    /\ (cmPc = "exit" /\ cmConVar /\ cmOutcome \in {"ok", "raised"}) => cmConn = "closed"

\* C19: the iterations of one loader walk the periods in strictly
\* increasing (year, month) order, starting at the first period and leaving
\* none out, so each period at most once; a run in which both loaders reach
\* the end of their loops has visited every period of both classes; and no
\* yellow period is visited after a green one.
C19_ChronologicalOrder ==
    /\ \A i, j \in DOMAIN lmVisited :
          i < j =>
            /\ (lmVisited[i][1] = lmVisited[j][1]) =>
                    PeriodBefore(lmVisited[i][2], lmVisited[j][2])
            /\ ~(lmVisited[i][1] = GREEN_RAW /\ lmVisited[j][1] = YELLOW_RAW)
    /\ \A i \in DOMAIN lmVisited :
          IF i = 1 \/ lmVisited[i - 1][1] # lmVisited[i][1]
          THEN lmVisited[i][2] = <<FirstYear, 1>>
          ELSE ~\E p \in Periods : /\ PeriodBefore(lmVisited[i - 1][2], p)
                                    /\ PeriodBefore(p, lmVisited[i][2])
    /\ (lmPc \in {"emissions", "summarize"} /\ ~lmStop) =>
          Range(lmVisited) = {YELLOW_RAW, GREEN_RAW} \X Periods

C19_Witness ==
    /\ lmPc = "exit"
    /\ lmOutcome = "ok"
    /\ ~lmStop
    /\ Len(lmVisited) = 2 * NumPeriods
    /\ lmVisited[NumPeriods] = <<YELLOW_RAW, <<FirstYear + NumYears - 1, NumMonths>>>>
    /\ lmVisited[NumPeriods + 1] = <<GREEN_RAW, <<FirstYear, 1>>>>
    /\ lmResume[YELLOW_RAW] # NoResume
    /\ Len(lmSkipped) = 1

(***************************************************************************)
(* A crash of the load stage. Every statement of _insert_rate_limited is   *)
(* its own committed transaction, so when the process is killed in some    *)
(* state the store holds the Raw Table of that state.                      *)
(***************************************************************************)
StoreAfterCrash == raw

\* C18 (load stage): in whatever state of period k the process is killed,
\* every row of the file of every period that logged OK before is in the
\* Raw Table the crash leaves, as often as that file holds it. (For the
\* cleaning stage see CleanRestartKeepsSteps.)
C18_CrashKeepsLoadedPeriods ==
    \A p \in okLog : \A r \in PickVals : StoreAfterCrash[r] >= files[p][r]

\* (the same for the rows a file holds in its own month range)
CrashKeepsOwnMonthRows ==
    \A p \in okLog : \A r \in PickVals :
        InMonthRange(r, p) = "T" => StoreAfterCrash[r] >= files[p][r]

(***************************************************************************)
(* The sequential Ingestor as a running process: it always takes its next  *)
(* step (time.sleep returns, a statement sent to the engine returns or     *)
(* raises); the operator's actions are under no obligation. The poll of    *)
(* _maybe_pause with the marker present changes nothing, so it is a        *)
(* stuttering step and the process makes no progress through it.           *)
(***************************************************************************)
ProgramStep ==
    \/ CheckStop
    \/ MaybePause
    \/ ResumeGate
    \/ EnsureTable
    \/ BuildProjection
    \/ DeleteStep
    \/ InsertStep
    \/ CheckpointStep
    \/ ExceptClause
    \/ RateLimitSleep
    \/ Finish

\* Remote files without stray rows: for the pause, what the files hold
\* plays no part.
PauseInit ==
    /\ Init
    /\ files = [p \in Periods |-> OneRow(MonthStart(p))]

SpecPause == PauseInit /\ [][Next]_vars /\ WF_vars(ProgramStep)

Terminated == pc \in {"done", "fatal", "stopped"}

\* While the Ingestor is at the pause poll with the marker present it stays
\* there, and no statement is issued nor the Raw Table changed; it leaves
\* the poll only with the marker absent, and then for the resume gate of
\* the same period.
PauseHoldsTheLoader ==
    /\ [][(pc = "pause" /\ pauseFile) =>
             (pc' = "pause" /\ UNCHANGED <<raw, issued, yyyy, mm>>)]_vars
    /\ [][(pc = "pause" /\ pc' # "pause") =>
             (~pauseFile /\ pc' = "gate" /\ UNCHANGED <<raw, issued, yyyy, mm>>)]_vars

\* C20 as stated: the pause holds the loader, and if every pause is
\* eventually cleared the run terminates (done, fatal error or stop).
C20_PauseEveryPauseCleared ==
    /\ PauseHoldsTheLoader
    /\ ([](pauseFile => <>(~pauseFile)) => <>Terminated)

\* C20 as the code has it: the pause holds the loader; with the marker
\* absent the loader leaves the poll unless the marker is back before the
\* next poll; and if from some point on the marker stays away, the run
\* terminates (done, fatal error or stop).
C20_Pause ==
    /\ PauseHoldsTheLoader
    /\ ((pc = "pause" /\ ~pauseFile) ~> (pc # "pause" \/ pauseFile))
    /\ (<>[](~pauseFile) => <>Terminated)

C20_Witness ==
    /\ pc = "pause"
    /\ pauseFile
    /\ okLog # {}
    /\ skipped # <<>>
    /\ cur = PeriodAt(NumPeriods)

(***************************************************************************)
(* The bookkeeping of clean_one: the counts it logs and the checkpoints it *)
(* forces. clLog holds the starting count, then for each step the count    *)
(* computed before the DELETE and the row count after it, then the final   *)
(* count.                                                                  *)
(***************************************************************************)
StartRows == clLog[1]

ToRemove(k) == clLog[2 * k]

RowsBefore(k) == clLog[2 * k - 1]

RowsAfter(k) == clLog[2 * k + 1]

StepLogged(k) == Len(clLog) >= 2 * k + 1

RECURSIVE SumToRemove(_)
SumToRemove(k) == IF k = 0 THEN 0 ELSE ToRemove(k) + SumToRemove(k - 1)

\* C21: no other writer touches the table. For every step that has run, the
\* count computed before the DELETE is the row count before the step less
\* the row count after it; when clean_one is done the six counts add up to
\* the starting rows less the final rows; and a checkpoint was forced after
\* the working copy and after every step, on the table that step left.
C21_CountsMatchRemovals ==
    /\ \A k \in Steps : StepLogged(k) => ToRemove(k) = RowsBefore(k) - RowsAfter(k)
    /\ \A k \in Steps : StepLogged(k) =>
          /\ Len(clCheckpoints) >= k + 1
          /\ clCheckpoints[k + 1] = RowsAfter(k)
    /\ (clPc \in {"step1", "step2", "step3", "step4", "step5", "step6", "final", "done"}) =>
          clCheckpoints[1] = StartRows
    /\ clPc = "done" =>
          /\ Len(clLog) = 2 * NumSteps + 2
          /\ Len(clCheckpoints) = NumSteps + 1
          /\ SumToRemove(NumSteps) = StartRows - clLog[2 * NumSteps + 2]
          /\ StartRows = Len(clSrc)
          /\ clLog[2 * NumSteps + 2] = Len(clDest)

C21_Witness ==
    /\ clPc = "done"
    /\ StartRows = 4
    /\ ToRemove(3) = 2
    /\ RowsAfter(3) = 2
    /\ clCheckpoints = <<4, 4, 4, 2, 2, 2, 2>>

(***************************************************************************)
(* verify_one called, as main calls it, on a store whose four tables hold  *)
(* anything: the cleaned table it reads may hold rows its checks count.    *)
(***************************************************************************)
CleanedContents ==
    {Present(<<GoodRow>>), Present(<<BadDistRow, GoodRow>>),
     Present(<<ZeroPaxRow, NullDistRow, GoodRow, GoodRow>>)}

VerifyStoreInit ==
    /\ cmPc = "verify"
    /\ cmCls \in {"yellow", "green"}
    /\ cmStep = 1
    /\ \E y \in RawContents, g \in RawContents, yc \in CleanedContents, gc \in CleanedContents :
          cmTables = [t \in StoreTables |->
                         CASE t = YELLOW_RAW -> y
                           [] t = GREEN_RAW -> g
                           [] t = YELLOW_CLEAN -> yc
                           [] t = GREEN_CLEAN -> gc]
    /\ cmConn = "open"
    /\ cmConVar = TRUE
    /\ cmOutcome = "running"
    /\ cmLogged = FALSE
    /\ cmStatuses = <<>>
    /\ cmDropped = {}
    /\ cmRerun = FALSE
    /\ cmFirst = NoFirstRun
    /\ LoadParked
    /\ ProjParked
    /\ CleanParked
    /\ OrderParked
    /\ VerifyParked
    /\ LoadMainParked

VerifyStoreNext ==
    \/ CmVerifyCall
    \/ VerifyCheck
    \/ VerifyStatus
    \/ CmVerifyReturn

SpecVerifyStore == VerifyStoreInit /\ [][VerifyStoreNext]_vars

InVerifyOne == vfPc \in {"check", "status", "done", "raised"}

\* C22: from the call of verify_one to its return no table of the store
\* changes, whatever the tables hold and whether the status is CLEAN PASSED
\* or CLEAN FAILED; the table it reads is at every point the table of the
\* store; and the rows its checks count are reported (count and status) and
\* are still in the table when it returns.
C22_VerifierMutatesNothing ==
    /\ [][(InVerifyOne \/ InVerifyOne') => cmTables' = cmTables]_vars
    /\ [](InVerifyOne => vfTbl = cmTables[Dest(cmCls)].rows)
    /\ [](vfPc = "done" =>
            /\ \A j \in 1 .. NumChecks :
                  vfCounts[j] = VerifyCount(cmTables[Dest(cmCls)].rows, j)
            /\ (vfStatus = "CLEAN FAILED") <=> (\E j \in 1 .. NumChecks : vfCounts[j] # 0))

C22_Witness ==
    /\ vfPc = "done"
    /\ cmCls = "green"
    /\ vfStatus = "CLEAN FAILED"
    /\ cmStatuses = <<"CLEAN PASSED">>
    /\ cmTables[GREEN_CLEAN] = Present(<<BadDistRow, GoodRow>>)
    /\ cmTables[YELLOW_CLEAN] = Present(<<GoodRow>>)
    /\ cmTables[YELLOW_RAW] = Present(<<BadDistRow, GoodRow>>)

(***************************************************************************)
(* Fatal errors and the log. clean.py's main has an except clause that     *)
(* calls logger.exception and raises again; load.py's main has a try with  *)
(* a finally clause only, and neither _connect nor _insert_rate_limited    *)
(* logs the error they raise.                                              *)
(***************************************************************************)
ErrorLevels == {"ERROR", "CRITICAL"}

LoadErrorLogged == \E m \in lmLog : m[1] \in ErrorLevels

\* C23: when an error has left the main function of the load stage or of
\* the cleaning stage, the log of that stage holds a record of it.
C23_FatalErrorsLogged ==
    /\ (lmPc = "exit" /\ lmOutcome = "raised") => LoadErrorLogged
    /\ (cmPc = "exit" /\ cmOutcome = "raised") => cmLogged

\* (the cleaning stage's half) every error that leaves clean.py's main has
\* been logged by its except clause, before the finally clause runs.
CleaningErrorsLogged ==
    (cmPc \in {"finally", "exit"} /\ cmOutcome = "raised") => cmLogged

(***************************************************************************)
(* The stop marker and the pause. The stop check (load.py 185) comes       *)
(* before _maybe_pause (190) and nothing reads STOP.LOAD after it until    *)
(* the top of the next iteration. With pc = "pause" the stop check of the  *)
(* current period is over, so a marker present there appeared after it.    *)
(***************************************************************************)
\* the (yyyy, mm) the loops take after p
PeriodAfter(p) == IF p[2] < NumMonths THEN <<p[1], p[2] + 1>> ELSE <<p[1] + 1, 1>>

StopAppearedInPause(p) == pc = "pause" /\ stopFile /\ cur = p

\* C24: with the stop marker appearing while the loader is in _maybe_pause
\* at the boundary before period p, the loader leaves the pause for the
\* resume gate of p, not for the stop return; and if the run then ends on
\* the stop marker it does so at the boundary after p, with p attempted
\* (unless the resume gate skips p).
C24_StopInPauseNotHonoured ==
    /\ [][(pc = "pause" /\ stopFile /\ pc' # "pause") =>
             (pc' = "gate" /\ UNCHANGED <<yyyy, mm, stopSeenAt>>)]_vars
    /\ \A p \in Periods :
          [](StopAppearedInPause(p) =>
                [](pc = "stopped" =>
                      /\ stopSeenAt = PeriodAfter(p)
                      /\ (p \in PastGate) => (p \in Attempted)))

C24_Witness ==
    /\ StopAppearedInPause(PeriodAt(2))
    /\ pauseFile
    /\ okLog = {PeriodAt(1)}
    /\ stopSeenAt = NoPeriod

(***************************************************************************)
(* The stop return of a loader inside load.py's main. STOP.LOAD is never   *)
(* removed by the program, so a marker a loader has seen is still there    *)
(* when the next loader starts.                                            *)
(***************************************************************************)
StopDetected == <<"INFO", "STOP.LOAD detected">> \in lmLog

VisitedOf(t) == {i \in DOMAIN lmVisited : lmVisited[i][1] = t}

AtStopCheckWithMarker == lmPc = "loop" /\ lmIdx <= NumPeriods /\ lmStop

\* C25: the stop return raises nothing, whether or not the loader created
\* its table or loaded a period: after it main goes on with load_green
\* (after load_yellow) or with load_vehicle_emissions (after load_green);
\* with the marker still there load_green returns at its first boundary
\* without visiting a period; and main then rebuilds vehicle_emissions and
\* runs summarize, ending normally unless the emissions statements raise.
C25_StopIsNormalReturn ==
    /\ [][AtStopCheckWithMarker =>
             /\ lmOutcome' = "running"
             /\ lmPc' = (IF lmTable = YELLOW_RAW THEN "entry" ELSE "emissions")
             /\ lmTable' = GREEN_RAW
             /\ UNCHANGED <<lmVisited, lmCreated, lmConn>>]_vars
    /\ []((StopDetected /\ Cardinality(VisitedOf(YELLOW_RAW)) < NumPeriods) =>
             VisitedOf(GREEN_RAW) = {})
    /\ []((StopDetected /\ lmPc \in {"finally", "exit"}) =>
             /\ <<"INFO", "Loading vehicle_emissions">> \in lmLog
             /\ (lmOutcome = "ok") <=> (<<"INFO", "vehicle_emissions loaded">> \in lmLog)
             /\ (lmOutcome = "ok") <=> (<<"INFO", "Load stage completed">> \in lmLog))

C25_Witness ==
    /\ lmPc = "exit"
    /\ lmOutcome = "ok"
    /\ StopDetected
    /\ lmVisited = <<>>
    /\ ~lmCreated
    /\ <<"INFO", "vehicle_emissions loaded">> \in lmLog
    /\ <<"INFO", "Load stage completed">> \in lmLog
    /\ lmConn = "closed"

(***************************************************************************)
(* A period that fails at the inspection of its remote file: the DESCRIBE  *)
(* of _build_projection_for_file (load.py 210) raises, before the DELETE   *)
(* (213) is sent.                                                          *)
(***************************************************************************)
FailedAtInspection ==
    /\ pc \in {"except", "sleep"}
    /\ cur \in raisedAt
    /\ <<"describe", cur>> \in issued
    /\ <<"delete", cur>> \notin issued

\* C26: when the inspection of a period's remote file raises, the Raw Table
\* is left as it was when the period's try block was entered: the rows in
\* the period's month range and all other rows, each as often as before;
\* no DELETE or INSERT has been sent for the period.
C26_InspectionFailureKeepsRows ==
    /\ [][(pc = "project" /\ pc' = "except") => raw' = raw]_vars
    /\ [](FailedAtInspection =>
             /\ raw = rawAtTry
             /\ RangePart(raw, cur) = RangePart(rawAtTry, cur)
             /\ <<"insert", cur>> \notin issued)

C26_Witness ==
    /\ FailedAtInspection
    /\ pc = "sleep"
    /\ cur = PeriodAt(2)
    /\ skipped = <<cur>>
    /\ raw[MonthStart(cur)] > 0
    /\ okLog = {PeriodAt(1)}

(***************************************************************************)
(* clean.py's main when a statement raises: the drops of the raw tables    *)
(* (269, 270) come after both clean_one calls and both verify_one calls,   *)
(* and the except and finally clauses send no statement but con.close().   *)
(***************************************************************************)
RawTables == {YELLOW_RAW, GREEN_RAW}

\* clean_one for green is under way, or main is past both clean_one calls
\* and has not yet dropped a raw table.
YellowCleanedInThisRun ==
    \/ cmCls = "green" /\ cmPc \in {"drop", "create", "copied", "count", "delete",
                                    "checkpoint", "final"}
    \/ cmPc \in {"summary", "verify", "verifying"}

BothCleanedInThisRun == cmPc \in {"summary", "verify", "verifying"}

\* C27: a raw table is dropped only by the drop statements, with both
\* cleaned tables built and both verify_one calls returned; a raw table is
\* changed by nothing else; so when a statement raises before the second
\* verify_one has returned, no raw table has been dropped. The error is
\* logged and raised again, and the except and finally clauses leave every
\* table as it is: a cleaned table built earlier in the run stays in place.
C27_RaiseKeepsRawTables ==
    /\ [][(cmDropped' \ cmDropped # {}) =>
             /\ cmPc = "dropraw"
             /\ Len(cmStatuses) = 2
             /\ cmTables[YELLOW_CLEAN].exists
             /\ cmTables[GREEN_CLEAN].exists]_vars
    /\ [][\A t \in RawTables :
             cmTables'[t] # cmTables[t] => t \in cmDropped' \ cmDropped]_vars
    /\ [](Len(cmStatuses) < 2 => cmDropped = {})
    /\ []((cmPc \in {"finally", "exit"} /\ cmOutcome = "raised") => cmLogged)
    /\ [][(cmPc = "except" /\ cmOutcome' # "crashed") => cmOutcome' = "raised"]_vars
    /\ [][(cmPc = "except" \/ cmPc = "finally") => cmTables' = cmTables]_vars
    /\ [](YellowCleanedInThisRun =>
             cmTables[YELLOW_CLEAN] = Present(CleanInOrder(cmTables[YELLOW_RAW].rows)))
    /\ [](BothCleanedInThisRun =>
             cmTables[GREEN_CLEAN] = Present(CleanInOrder(cmTables[GREEN_RAW].rows)))

C27_Witness ==
    /\ cmPc = "exit"
    /\ cmOutcome = "raised"
    /\ cmLogged
    /\ ~cmRerun
    /\ cmStatuses = <<>>
    /\ cmDropped = {}
    /\ cmTables[YELLOW_RAW] = Present(<<BadDistRow, GoodRow>>)
    /\ cmTables[YELLOW_CLEAN] = Present(<<GoodRow>>)
    /\ cmTables[GREEN_RAW] = Present(<<ZeroPaxRow, NullDistRow, GoodRow, GoodRow>>)
    /\ cmTables[GREEN_CLEAN] = cmTables[GREEN_RAW]

(***************************************************************************)
(* clean_one and what it finds in the store: a cleaned table of an earlier *)
(* run, complete or left half-cleaned by a run that was killed.            *)
(***************************************************************************)
\* steps 1 .. k of clean_one applied to t
RECURSIVE CleanUpTo(_, _)
CleanUpTo(t, k) == IF k = 0 THEN t ELSE DeleteWhere(CleanUpTo(t, k - 1), k)

InCleanOne == cmPc \in {"drop", "create", "copied", "count", "delete", "checkpoint", "final"}

\* the number of steps of the clean_one under way whose DELETE has run
StepsDone ==
    CASE cmPc \in {"count", "delete"} -> cmStep - 1
      [] cmPc = "checkpoint" -> cmStep
      [] cmPc = "final" -> NumSteps
      [] OTHER -> 0

\* C28: whatever the destination table held when clean_one was called
\* (nothing, an earlier result, or a table a killed run left half-cleaned),
\* after the DROP it is gone, after the CREATE it is a full copy of the
\* source, and from then on it is the source with the steps done so far
\* applied: the result is a function of the Raw Table alone. clean_one
\* changes no raw table.
C28_RebuildFromSource ==
    /\ [](cmPc = "create" => ~cmTables[Dest(cmCls)].exists)
    /\ []((InCleanOne /\ cmPc \notin {"drop", "create"}) =>
             /\ cmTables[Src(cmCls)].exists
             /\ cmTables[Dest(cmCls)] =
                   Present(CleanUpTo(cmTables[Src(cmCls)].rows, StepsDone)))
    /\ [](cmPc = "final" =>
             cmTables[Dest(cmCls)] = Present(CleanInOrder(cmTables[Src(cmCls)].rows)))
    /\ [][InCleanOne => (/\ cmTables'[YELLOW_RAW] = cmTables[YELLOW_RAW]
                         /\ cmTables'[GREEN_RAW] = cmTables[GREEN_RAW])]_vars

C28_Witness ==
    /\ cmRerun
    /\ cmFirst.outcome = "crashed"
    /\ cmFirst.cls = "yellow"
    /\ cmFirst.pc = "checkpoint"
    /\ cmFirst.step = 2
    /\ cmFirst.tables[YELLOW_CLEAN] = Present(<<NullDistRow, GoodRow, GoodRow>>)
    /\ cmPc = "copied"
    /\ cmCls = "yellow"
    /\ cmTables[YELLOW_RAW] = Present(<<ZeroPaxRow, NullDistRow, GoodRow, GoodRow>>)
    /\ cmTables[YELLOW_CLEAN] = cmTables[YELLOW_RAW]

====
